---- MODULE Spec2Model ----
(***************************************************************************)
(* A model of brain-dock's claim extraction worker                         *)
(* (apps/worker/extract_claims_llm.py, claim_schema_v2.py, redaction.py,   *)
(* json_contract.py, db_runtime.py).                                       *)
(*                                                                         *)
(* Text is a sequence of one-character strings, so that strip(), slicing   *)
(* and the regular expressions of the source are computed, not assumed.    *)
(* Scores, certainties and confidences are integers in hundredths.         *)
(***************************************************************************)
EXTENDS Integers, Sequences, FiniteSets, TLC

\* Python's None / SQL NULL.
NULL == "<null>"

(***************************************************************************)
(* Text helpers: str.strip, slicing, `in`, str.startswith, str.lower.      *)
(***************************************************************************)

\* str.isspace on the characters of the model: the blanks of ASCII and U+3000.
IsSpace(c) == c \in {" ", "\n", "\t", "\r", "u3000"}

\* str.lstrip: the text from its first character that is no blank.
LStrip(s) ==
    CHOOSE stripped \in
        UNION {{IF kept = {} THEN <<>>
                ELSE SubSeq(t, CHOOSE i \in kept : \A j \in kept : i <= j, Len(t)) :
                kept \in {{i \in 1..Len(t) : ~IsSpace(t[i])}}} : t \in {s}} : TRUE

\* str.rstrip: the text up to its last character that is no blank.
RStrip(s) ==
    CHOOSE stripped \in
        UNION {{IF kept = {} THEN <<>>
                ELSE SubSeq(t, 1, CHOOSE i \in kept : \A j \in kept : j <= i) :
                kept \in {{i \in 1..Len(t) : ~IsSpace(t[i])}}} : t \in {s}} : TRUE

\* str.strip: the text between its first and its last character that is
\* no blank.
Strip(s) ==
    CHOOSE stripped \in
        UNION {{IF kept = {} THEN <<>>
                ELSE SubSeq(t, CHOOSE i \in kept : \A j \in kept : i <= j,
                            CHOOSE i \in kept : \A j \in kept : j <= i) :
                kept \in {{i \in 1..Len(t) : ~IsSpace(t[i])}}} : t \in {s}} : TRUE

\* s[:n]
Take(s, n) == IF Len(s) <= n THEN s ELSE SubSeq(s, 1, n)

\* s[n:]
Drop(s, n) == IF Len(s) <= n THEN <<>> ELSE SubSeq(s, n + 1, Len(s))

MatchAt(s, p, i) == i + Len(p) - 1 <= Len(s) /\ SubSeq(s, i, i + Len(p) - 1) = p

\* p in s
Contains(s, p) == \E i \in 1..(Len(s) + 1) : MatchAt(s, p, i)

StartsWith(s, p) == MatchAt(s, p, 1)

ContainsAny(s, ps) == \E p \in ps : Contains(s, p)

UpperLetters == <<"A","B","C","D","E","F","G","H","I","J","K","L","M",
                  "N","O","P","Q","R","S","T","U","V","W","X","Y","Z">>

LowerLetters == <<"a","b","c","d","e","f","g","h","i","j","k","l","m",
                  "n","o","p","q","r","s","t","u","v","w","x","y","z">>

LowerChar(c) ==
    IF \E i \in 1..Len(UpperLetters) : UpperLetters[i] = c
    THEN LowerLetters[CHOOSE i \in 1..Len(UpperLetters) : UpperLetters[i] = c]
    ELSE c

Lower(s) == [i \in 1..Len(s) |-> LowerChar(s[i])]

\* A Python `a or b` on strings.
OrElse(a, b) == IF a # <<>> THEN a ELSE b


(***************************************************************************)
(* The pattern tables of extract_claims_llm.py:55-96 and claim_schema_v2.py *)
(* :28-43.  A character outside ASCII is written "uXXXX", its code point.  *)
(***************************************************************************)

\* The alternatives of CAUSE_HINT_RE.
CAUSE_HINT_ALTS ==
    {<<"b","e","c","a","u","s","e">>, <<"d","u","e"," ","t","o">>,
     <<"u306e","u3067">>, <<"u304b","u3089">>, <<"u305f","u3081">>,
     <<"u305b","u3044","u3067">>}

\* The alternatives of RAIN_HINT_RE.
RAIN_HINT_ALTS ==
    {<<"r","a","i","n">>, <<"u96e8">>}

\* The alternatives of STATE_CHANGE_HINT_RE.
STATE_CHANGE_HINT_ALTS ==
    {<<"u60aa","u5316">>, <<"u6539","u5584">>, <<"u56de","u5fa9">>,
     <<"u4f4e","u4e0b">>, <<"u4e0a","u6607">>, <<"u4e0d","u8abf">>,
     <<"u60aa","u304f">>, <<"u826f","u304f">>, <<"u5d29","u308c">>,
     <<"u3057","u3093","u3069">>, <<"u75db">>, <<"u3064","u3089">>,
     <<"w","o","r","s","e","n">>, <<"w","o","r","s","e","n","e","d">>,
     <<"w","o","r","s","e","n","i","n","g">>, <<"i","m","p","r","o","v">>,
     <<"r","e","c","o","v","e","r">>}

\* The alternatives of ACTION_HINT_RE.
ACTION_HINT_ALTS ==
    {<<"u3057","u305f">>, <<"u3057","u3066">>, <<"u884c","u3063">>,
     <<"u5e30","u5b85">>, <<"u4f5c","u696d">>, <<"u30c8","u30ec">>,
     <<"u904b","u52d5">>, <<"u6d17","u6fef">>, <<"u5bdd">>,
     <<"u6307","u793a">>, <<"u51fa","u3057">>, <<"u3084","u3063">>,
     <<"u4f1a","u8b70">>, <<"u52c9","u5f37">>, <<"u8aad","u66f8">>,
     <<"u66f8","u3044">>, <<"u9001","u3063">>, <<"u9023","u7d61">>,
     <<"u6e96","u5099">>, <<"u8cb7","u3063">>}

\* The alternatives of PLAN_HINT_RE.
PLAN_HINT_ALTS ==
    {<<"u3057","u3088","u3046">>, <<"u3059","u308b","u4e88","u5b9a">>,
     <<"u3064","u3082","u308a">>, <<"u3057","u305f","u3044">>,
     <<"u5fd8","u308c","u306a","u3044","u3088","u3046">>,
     <<"u3057","u306a","u3051","u308c","u3070">>, <<"u3079","u304d">>,
     <<"u4e88","u5b9a">>, <<"t","o"," ","d","o">>, <<"t","o","d","o">>}

\* The alternatives of TOPIC_HINT_RE in the order the regex engine tries them
\* (the optional group is greedy).
TOPIC_HINT_ALTS ==
    <<<<"u5589","u306e","u8abf","u5b50">>, <<"u5589">>, <<"u306e","u3069">>,
     <<"u4f53","u8abf">>, <<"u71b1">>, <<"u54b3">>, <<"u982d","u75db">>,
     <<"u80c3">>, <<"u58f0">>, <<"u9f3b">>, <<"u7761","u7720">>,
     <<"u6c17","u5206">>, <<"u75b2","u52b4">>,
     <<"s","o","r","e"," ","t","h","r","o","a","t">>,
     <<"t","h","r","o","a","t">>, <<"c","o","n","d","i","t","i","o","n">>,
     <<"h","e","a","l","t","h">>>>

\* Group 1 of TEMPORAL_PREFIX_RE, in the order the regex engine tries the
\* alternatives.
TEMPORAL_PREFIX_ALTS ==
    <<<<"u4eca","u65e5">>, <<"u6628","u65e5">>, <<"u660e","u65e5">>,
     <<"u4eca","u671d">>, <<"u4eca","u591c">>, <<"u6628","u591c">>,
     <<"u5148","u9031">>, <<"u4eca","u9031">>, <<"u6765","u9031">>,
     <<"u5148","u6708">>, <<"u4eca","u6708">>, <<"u6765","u6708">>,
     <<"u6708","u66dc","u65e5">>, <<"u6708","u66dc">>,
     <<"u706b","u66dc","u65e5">>, <<"u706b","u66dc">>,
     <<"u6c34","u66dc","u65e5">>, <<"u6c34","u66dc">>,
     <<"u6728","u66dc","u65e5">>, <<"u6728","u66dc">>,
     <<"u91d1","u66dc","u65e5">>, <<"u91d1","u66dc">>,
     <<"u571f","u66dc","u65e5">>, <<"u571f","u66dc">>,
     <<"u65e5","u66dc","u65e5">>, <<"u65e5","u66dc">>>>

\* The particle that ends TEMPORAL_PREFIX_RE (U+306F).
TEMPORAL_PREFIX_TAIL == <<"u306f">>

\* The alternatives of ME_REFERENCE_RE.
ME_REFERENCE_ALTS ==
    {<<"m","e">>, <<"i">>, <<"m","y","s","e","l","f">>, <<"u79c1">>,
     <<"u308f","u305f","u3057">>, <<"u50d5">>, <<"u307c","u304f">>,
     <<"u4ffa">>, <<"u304a","u308c">>, <<"u81ea","u5206">>}

\* SUPPORTED_PREDICATES of claim_schema_v2.py.
SUPPORTED_PREDICATES ==
    {<<"d","i","d">>, <<"w","a","s","_","w","i","t","h">>,
     <<"w","e","n","t","_","t","o">>,
     <<"e","x","p","e","r","i","e","n","c","e","d">>,
     <<"c","h","o","s","e">>, <<"e","n","d","e","d">>, <<"f","e","l","t">>,
     <<"w","a","s","_","a","f","f","e","c","t","e","d","_","b","y">>,
     <<"h","a","p","p","e","n","e","d">>, <<"d","e","c","i","d","e","d">>,
     <<"l","e","a","r","n","e","d">>, <<"p","l","a","n","n","e","d">>,
     <<"r","e","q","u","e","s","t","e","d">>,
     <<"m","e","n","t","i","o","n","s">>}

\* DECISION_PREDICATES.
DECISION_PREDICATES ==
    {<<"c","h","o","s","e">>, <<"e","n","d","e","d">>,
     <<"d","e","c","i","d","e","d">>}

\* EVENT_PREDICATES.
EVENT_PREDICATES ==
    {<<"h","a","p","p","e","n","e","d">>,
     <<"e","x","p","e","r","i","e","n","c","e","d">>,
     <<"w","a","s","_","a","f","f","e","c","t","e","d","_","b","y">>}

\* PREDICATE_ALIAS_PATTERNS, in order.
PREDICATE_ALIAS_PATTERNS ==
    <<
      [mapped |-> <<"w","e","n","t","_","t","o">>,
       alts |-> {<<"w","e","n","t","_","t","o">>, <<"g","o">>,
                <<"v","i","s","i","t">>, <<"u884c","u3063","u305f">>,
                <<"u884c","u304f">>, <<"u5411","u304b","u3063","u305f">>,
                <<"u8a2a","u308c","u305f">>}],
      [mapped |-> <<"w","a","s","_","w","i","t","h">>,
       alts |-> {<<"w","a","s","_","w","i","t","h">>, <<"w","i","t","h">>,
                <<"u4e00","u7dd2">>, <<"u540c","u884c">>,
                <<"u540c","u671f","u3068">>, <<"u53cb","u9054","u3068">>,
                <<"u540c","u50da","u3068">>}],
      [mapped |-> <<"c","h","o","s","e">>,
       alts |-> {<<"c","h","o","s","e">>, <<"c","h","o","i","c","e">>,
                <<"u9078","u3093","u3060">>, <<"u6c7a","u3081","u305f">>}],
      [mapped |-> <<"e","n","d","e","d">>,
       alts |-> {<<"e","n","d","e","d">>, <<"u89e3","u6563">>,
                <<"u7d42","u308f","u3063","u305f">>,
                <<"u7d42","u4e86","u3057","u305f">>}],
      [mapped |-> <<"f","e","l","t">>,
       alts |-> {<<"f","e","l","t">>, <<"u611f","u3058","u305f">>,
                <<"u6c17","u5206">>, <<"e","m","o","t","i","o","n">>}],
      [mapped |-> <<"l","e","a","r","n","e","d">>,
       alts |-> {<<"l","e","a","r","n","e","d">>,
                <<"u5b66","u3093","u3060">>, <<"u899a","u3048","u305f">>}],
      [mapped |-> <<"p","l","a","n","n","e","d">>,
       alts |-> {<<"p","l","a","n","n","e","d">>, <<"u4e88","u5b9a">>,
                <<"u3064","u3082","u308a">>}],
      [mapped |-> <<"r","e","q","u","e","s","t","e","d">>,
       alts |-> {<<"r","e","q","u","e","s","t","e","d">>,
                <<"u983c","u3093","u3060">>, <<"u4f9d","u983c">>}],
      [mapped |-> <<"w","a","s","_","a","f","f","e","c","t","e","d","_","b","y">>,
       alts |-> {<<"a","f","f","e","c","t","e","d">>, <<"u5f71","u97ff">>,
                <<"u5de6","u53f3">>}],
      [mapped |-> <<"h","a","p","p","e","n","e","d">>,
       alts |-> {<<"h","a","p","p","e","n","e","d">>,
                <<"u8d77","u304d","u305f">>, <<"u767a","u751f">>,
                <<"u964d","u3063","u305f">>}],
      [mapped |-> <<"d","i","d">>,
       alts |-> {<<"d","i","d">>, <<"u3057","u305f">>, <<"u5b9f","u65bd">>,
                <<"u904a","u3093","u3060">>}],
      [mapped |-> <<"d","e","c","i","d","e","d">>,
       alts |-> {<<"d","e","c","i","d","e","d">>, <<"u5224","u65ad">>,
                <<"u6c7a","u65ad">>}]
    >>

\* The state-change words that end the topic pattern of _extract_context_topic.
TOPIC_CHANGE_ALTS ==
    {<<"u60aa","u5316">>, <<"u60aa","u304f">>, <<"u6539","u5584">>,
     <<"u56de","u5fa9">>, <<"u4f4e","u4e0b">>, <<"u4e0a","u6607">>,
     <<"u4e0d","u8abf">>, <<"u75db">>}

\* The prefixes _needs_context_completion accepts.
COMPLETION_PREFIXES ==
    {<<"u3055","u3089","u306b">>, <<"u6025","u306b">>,
     <<"u6848","u306e","u5b9a">>}

\* U+6848 U+306E U+5B9A, removed by _normalize_time_expression_prefix.
ANNOJO == <<"u6848","u306e","u5b9a">>
\* The particle U+304C.
GA == <<"u304c">>
\* SENTENCE_SPLIT_RE and ACTION_CLAUSE_SPLIT_RE.
SENTENCE_END == {"u3002","uff01","uff1f"}
CLAUSE_END == {"u3001"}
\* The punctuation _normalize_text_for_match removes.
MATCH_PUNCT ==
    {"u3002", "u3001", "uff01", "uff1f", "u30fb", ",", ".", ";", ":", "(",
     ")", "uff08", "uff09", "u300c", "u300d", "u300e", "u300f", "\"", "'",
     "u0060"}

\* The same with re.IGNORECASE (every literal of the tables is lower case).
ReSearchI(alts, s) == ContainsAny(Lower(s), alts)

SeqRange(q) == {q[i] : i \in 1..Len(q)}

\* Slice lengths of the source.
MaxObjectLen == 1000
MaxSubjectLen == 120
MaxExcerptLen == 200
MaxContextLen == 180
MaxTopicLen == 24
MaxShortLen == 24
MinClauseLen == 4

\* An evidence span without offsets (char_start = char_end = None).
NoOffset == -1

(***************************************************************************)
(* claim_schema_v2.py: the parsed records.                                 *)
(***************************************************************************)

SUPPORTED_MODALITIES == {"fact", "plan", "hypothesis", "request", "feeling"}
SUPPORTED_POLARITIES == {"affirm", "negate"}
SUPPORTED_RELATIONS ==
    {"supports", "contradicts", "caused_by", "follow_up", "same_event"}
SUPPORTED_ENTITY_TYPES ==
    {"person", "organization", "project", "place", "concept", "other"}
SUPPORTED_ME_ROLES == {"actor", "experiencer", "observer", "recipient", "none"}

ParsedEvidenceSpan(char_start, char_end, excerpt) ==
    [char_start |-> char_start, char_end |-> char_end, excerpt |-> excerpt]

\* ParsedClaim(**f) with its __post_init__.  f carries every keyword of the
\* dataclass; `origin` is a history tag that no code reads: the position of the
\* item of the input this claim was built from, or -1 for a synthesized claim.
ParsedClaim(f) ==
    LET raw == OrElse(f.object_text_raw, f.object_text)
        canonical == OrElse(f.object_text_canonical, raw)
    IN  [f EXCEPT !.object_text_raw = Take(raw, MaxObjectLen),
                  !.object_text_canonical = Take(canonical, MaxObjectLen),
                  !.object_text = Take(canonical, MaxObjectLen),
                  !.me_role = IF f.me_role \in SUPPORTED_ME_ROLES
                              THEN f.me_role ELSE "none"]

\* ParsedClaimLink; `origin` is a history tag that no code reads: the position
\* of the item of the input this link was built from, or -1 for a synthesized
\* link.
ParsedClaimLink(from_claim_index, to_claim_index, relation_type, confidence, origin) ==
    [from_claim_index |-> from_claim_index, to_claim_index |-> to_claim_index,
     relation_type |-> relation_type, confidence |-> confidence,
     origin |-> origin]

ParsedClaimsOutput(claims, entities, links) ==
    [claims |-> claims, entities |-> entities, links |-> links]

\* `a or b` on an optional timestamp.
TimeOr(a, b) == IF a \notin {NULL, ""} THEN a ELSE b

(***************************************************************************)
(* extract_claims_llm.py: the helpers of the normalizer.                   *)
(***************************************************************************)

_normalize_subject_text(subject_text) ==
    LET value == Strip(subject_text)
    IN  IF value = <<>> THEN <<"m","e">>
        ELSE IF Lower(value) \in ME_REFERENCE_ALTS THEN <<"m","e">>
        ELSE Take(value, MaxSubjectLen)

\* A canonicalization that maps every predicate to "mentions".
_canonicalize_predicate_mentions(predicate, object_text) ==
    <<"m","e","n","t","i","o","n","s">>

_canonicalize_predicate(predicate, object_text) ==
    LET raw == Strip(predicate)
        candidate == raw \o <<" ">> \o object_text
        hits == {k \in 1..Len(PREDICATE_ALIAS_PATTERNS) :
                    ReSearchI(PREDICATE_ALIAS_PATTERNS[k].alts, candidate)}
    IN  IF raw \in SUPPORTED_PREDICATES THEN raw
        ELSE IF hits # {}
             THEN PREDICATE_ALIAS_PATTERNS[CHOOSE k \in hits :
                                             \A j \in hits : k <= j].mapped
        ELSE <<"m","e","n","t","i","o","n","s">>

\* A normalization that leaves a claim without evidence as it is.
_ensure_single_evidence_asis(claim, raw_text) == claim

_ensure_single_evidence(claim, raw_text) ==
    IF claim.evidence_spans # <<>> THEN claim
    ELSE LET excerpt == OrElse(Take(Strip(raw_text), MaxExcerptLen),
                               Take(claim.object_text_canonical, MaxExcerptLen))
             fallback_span ==
                 ParsedEvidenceSpan(NoOffset, NoOffset,
                     OrElse(excerpt, <<"e","v","i","d","e","n","c","e"," ",
                                       "u","n","a","v","a","i","l","a","b","l","e">>))
         IN  ParsedClaim([claim EXCEPT !.evidence_spans = <<fallback_span>>,
                                       !.object_text = <<>>])

_make_fallback_me_claim(raw_text, occurred_at_utc) ==
    LET snippet == Strip(raw_text)
        excerpt == IF snippet # <<>> THEN Take(snippet, MaxExcerptLen)
                   ELSE <<"n","o"," ","t","e","x","t">>
        object == IF snippet # <<>> THEN Take(snippet, MaxObjectLen)
                  ELSE <<"e","n","t","r","y"," ","r","e","c","o","r","d","e","d">>
    IN  ParsedClaim(
          [subject_text |-> <<"m","e">>,
           predicate |-> <<"e","x","p","e","r","i","e","n","c","e","d">>,
           object_text_raw |-> object,
           object_text_canonical |-> object,
           me_role |-> "experiencer",
           modality |-> "fact",
           polarity |-> "affirm",
           certainty |-> 50,
           time_start_utc |-> occurred_at_utc,
           time_end_utc |-> NULL,
           subject_entity_name |-> <<>>,
           object_entity_name |-> <<>>,
           dimensions |-> <<>>,
           evidence_spans |-> <<ParsedEvidenceSpan(NoOffset, NoOffset, excerpt)>>,
           object_text |-> <<>>,
           origin |-> -1])

\* The characters of the model's texts that CJK_RE, [U+3041-U+3093 U+30A1-U+30F6
\* U+4E00-U+9FA0], accepts: every "uXXXX" of this module in those ranges.
CJK_CHARS ==
    {"u3044", "u3046", "u3048", "u304a", "u304b", "u304c", "u304d", "u304f",
     "u3051", "u3055", "u3057", "u3058", "u3059", "u305b", "u305f", "u3060",
     "u3063", "u3064", "u3066", "u3067", "u3068", "u3069", "u306a", "u306b",
     "u306e", "u306f", "u3070", "u3079", "u307c", "u3081", "u3082", "u3084",
     "u3088", "u3089", "u308a", "u308b", "u308c", "u308f", "u3093", "u30c8",
     "u30ec", "u4e00", "u4e0a", "u4e0b", "u4e0d", "u4e86", "u4e88", "u4eca",
     "u4f1a", "u4f4e", "u4f53", "u4f5c", "u4f9d", "u4ffa", "u5099", "u50d5",
     "u50da", "u5148", "u51fa", "u5206", "u5224", "u52b4", "u52c9", "u52d5",
     "u5316", "u53cb", "u53f3", "u540c", "u5411", "u54b3", "u5584", "u5589",
     "u56de", "u571f", "u58f0", "u591c", "u5b50", "u5b66", "u5b85", "u5b9a",
     "u5b9f", "u5bdd", "u5d29", "u5de6", "u5e30", "u5f37", "u5f71", "u5fa9",
     "u5fd8", "u6025", "u60aa", "u611f", "u6307", "u6539", "u6563", "u65ad",
     "u65bd", "u65e5", "u6607", "u660e", "u6628", "u66dc", "u66f8", "u6708",
     "u671d", "u671f", "u6728", "u6765", "u6848", "u696d", "u6c17", "u6c34",
     "u6c7a", "u6d17", "u6e96", "u6fef", "u706b", "u71b1", "u751f", "u75b2",
     "u75db", "u767a", "u7720", "u7761", "u793a", "u79c1", "u7d42", "u7d61",
     "u7dd2", "u80c3", "u81ea", "u826f", "u884c", "u899a", "u89e3", "u8a2a",
     "u8aad", "u8abf", "u8b70", "u8cb7", "u8d77", "u9001", "u9023", "u9031",
     "u904a", "u904b", "u9054", "u9078", "u91d1", "u964d", "u96e8", "u97ff",
     "u982d", "u983c", "u9f3b",
     "u6226", "u7565",
     "u3053", "u5bbf", "u984c", "u7de0", "u5207", "u9650", "u5bfe", "u5fdc"}

_contains_cjk(text) == \E i \in 1..Len(text) : text[i] \in CJK_CHARS

_restore_object_text_from_evidence_if_translated(object_text, raw_text, evidence_spans) ==
    IF Strip(raw_text) = <<>> \/ evidence_spans = <<>> THEN object_text
    ELSE IF ~_contains_cjk(raw_text) THEN object_text
    ELSE IF _contains_cjk(object_text) THEN object_text
    ELSE LET excerpt == Strip(evidence_spans[1].excerpt)
         IN  IF excerpt # <<>> /\ _contains_cjk(excerpt)
             THEN Take(excerpt, MaxObjectLen)
             ELSE object_text

\* The (start, length) pairs at which the topic pattern
\* (?P<topic>[^U+3001 U+3002]{1,24}?)U+304C(?:...) matches in `value`.
TopicMatches(value) ==
    {p \in (1..Len(value)) \X (1..MaxTopicLen) :
        /\ p[1] + p[2] - 1 <= Len(value)
        /\ \A j \in p[1]..(p[1] + p[2] - 1) : value[j] \notin {"u3001","u3002"}
        /\ MatchAt(value, GA, p[1] + p[2])
        /\ \E a \in TOPIC_CHANGE_ALTS : MatchAt(value, a, p[1] + p[2] + 1)}

\* The leftmost match of an ordered alternation, as (start, alternative);
\* <<0, 0>> when there is none.
FirstAltMatch(alts, s) ==
    LET hits == {p \in (1..Len(s)) \X (1..Len(alts)) : MatchAt(s, alts[p[2]], p[1])}
    IN  IF hits = {} THEN <<0, 0>>
        ELSE CHOOSE p \in hits :
                \A q \in hits : p[1] < q[1] \/ (p[1] = q[1] /\ p[2] <= q[2])

\* Returns <<>> where the source returns None.
_extract_context_topic(text) ==
    LET value == Strip(text)
        tm == TopicMatches(value)
        first == CHOOSE p \in tm :
                    \A q \in tm : p[1] < q[1] \/ (p[1] = q[1] /\ p[2] <= q[2])
        topic == IF tm = {} THEN <<>>
                 ELSE Strip(SubSeq(value, first[1], first[1] + first[2] - 1))
        hint == FirstAltMatch(TOPIC_HINT_ALTS, Lower(value))
    IN  IF value = <<>> THEN <<>>
        ELSE IF topic # <<>> THEN Take(topic, MaxTopicLen)
        ELSE IF hint[1] > 0
             THEN SubSeq(value, hint[1], hint[1] + Len(TOPIC_HINT_ALTS[hint[2]]) - 1)
        ELSE <<>>

\* TEMPORAL_PREFIX_RE.search(value): the alternative of group 1 that matches at
\* the start of value, 0 when none does.
TemporalPrefix(value) ==
    LET hits == {k \in 1..Len(TEMPORAL_PREFIX_ALTS) :
                    StartsWith(value, TEMPORAL_PREFIX_ALTS[k] \o TEMPORAL_PREFIX_TAIL)}
    IN  IF hits = {} THEN 0 ELSE CHOOSE k \in hits : \A j \in hits : k <= j

_needs_context_completion(text) ==
    LET value == Strip(text)
    IN  IF value = <<>> THEN FALSE
        ELSE IF ReSearchI(SeqRange(TOPIC_HINT_ALTS), value) THEN FALSE
        ELSE IF ~ReSearchI(STATE_CHANGE_HINT_ALTS, value) THEN FALSE
        ELSE IF TemporalPrefix(value) > 0 THEN TRUE
        ELSE IF \E p \in COMPLETION_PREFIXES : StartsWith(value, p) THEN TRUE
        ELSE Len(value) <= MaxShortLen

_normalize_time_expression_prefix(text) ==
    LET v1 == Strip(text)
        v2 == Strip(IF StartsWith(v1, ANNOJO) THEN Drop(v1, Len(ANNOJO)) ELSE v1)
        k == TemporalPrefix(v2)
    IN  IF k = 0 THEN v2
        ELSE TEMPORAL_PREFIX_ALTS[k] \o <<"u306b">>
             \o Drop(v2, Len(TEMPORAL_PREFIX_ALTS[k]) + Len(TEMPORAL_PREFIX_TAIL))

RECURSIVE ContextCompletionFrom(_, _, _, _)
ContextCompletionFrom(claims, i, latest_topic, out) ==
    IF i > Len(claims) THEN out
    ELSE LET claim == claims[i]
             object_text == Strip(claim.object_text_canonical)
             current_topic == _extract_context_topic(object_text)
             enriched == latest_topic \o GA
                         \o _normalize_time_expression_prefix(object_text)
         IN  IF current_topic # <<>>
             THEN ContextCompletionFrom(claims, i + 1, current_topic,
                                        Append(out, claim))
             ELSE IF /\ latest_topic # <<>>
                     /\ _needs_context_completion(object_text)
                     /\ ~Contains(object_text, latest_topic)
             THEN ContextCompletionFrom(claims, i + 1, latest_topic,
                    Append(out, ParsedClaim(
                        [claim EXCEPT !.object_text_canonical =
                                          Take(enriched, MaxObjectLen),
                                      !.object_text = <<>>])))
             ELSE ContextCompletionFrom(claims, i + 1, latest_topic,
                                        Append(out, claim))

\* _apply_context_completion carrying the first topic named instead of the
\* latest one.
_apply_context_completion_first_topic(claims) ==
    LET ObjectText(i) == Strip(claims[i].object_text_canonical)
        Named(i) == {j \in 1..(i - 1) : _extract_context_topic(ObjectText(j)) # <<>>}
        First(i) == CHOOSE j \in Named(i) : \A k \in Named(i) : j <= k
    IN  [i \in 1..Len(claims) |->
            IF /\ _extract_context_topic(ObjectText(i)) = <<>>
               /\ Named(i) # {}
               /\ _needs_context_completion(ObjectText(i))
               /\ ~Contains(ObjectText(i), _extract_context_topic(ObjectText(First(i))))
            THEN ParsedClaim(
                    [claims[i] EXCEPT
                        !.object_text_canonical =
                            Take(_extract_context_topic(ObjectText(First(i))) \o GA
                                 \o _normalize_time_expression_prefix(ObjectText(i)),
                                 MaxObjectLen),
                        !.object_text = <<>>])
            ELSE claims[i]]

_apply_context_completion(claims) == ContextCompletionFrom(claims, 1, <<>>, <<>>)

\* re.split on one delimiter character out of `delims` (the \s* that follows
\* the delimiter in the patterns is removed by the strip() of every piece).
\* The place of the first character of s that is in delims, 0 when none is.
FirstIn(s, delims) ==
    CHOOSE place \in
        {IF \A i \in 1..Len(t) : t[i] \notin delims THEN 0
         ELSE CHOOSE i \in 1..Len(t) :
                  /\ t[i] \in delims
                  /\ \A j \in 1..(i - 1) : t[j] \notin delims : t \in {s}} : TRUE

\* One step for every delimiter: the piece before it is set down, and the
\* text after it is split in turn.
RECURSIVE SplitAt(_, _, _, _, _)
SplitAt(s, place, delims, cur, out) ==
    IF place = 0 THEN Append(out, cur \o s)
    ELSE SplitAt(SubSeq(s, place + 1, Len(s)),
                 FirstIn(SubSeq(s, place + 1, Len(s)), delims), delims, <<>>,
                 Append(out, cur \o SubSeq(s, 1, place - 1)))

SplitOn(s, delims, cur, out) == SplitAt(s, FirstIn(s, delims), delims, cur, out)

\* [x.strip() for x in pieces if x.strip()]
RECURSIVE StripNonEmpty(_)
StripNonEmpty(pieces) ==
    IF pieces = <<>> THEN <<>>
    ELSE IF Strip(Head(pieces)) = <<>> THEN StripNonEmpty(Tail(pieces))
    ELSE <<Strip(Head(pieces))>> \o StripNonEmpty(Tail(pieces))

RECURSIVE FlattenClauses(_)
FlattenClauses(sentences) ==
    IF sentences = <<>> THEN <<>>
    ELSE StripNonEmpty(SplitOn(Head(sentences), CLAUSE_END, <<>>, <<>>))
         \o FlattenClauses(Tail(sentences))

_split_action_clauses(raw_text) ==
    FlattenClauses(StripNonEmpty(SplitOn(raw_text, SENTENCE_END, <<>>, <<>>)))

_normalize_text_for_match(text) ==
    LET collapsed == Lower(SelectSeq(text, LAMBDA c : ~IsSpace(c)))
    IN  SelectSeq(collapsed, LAMBDA c : c \notin MATCH_PUNCT)

\* _char_ngrams(text, n=2)
_char_ngrams(text) ==
    IF text = <<>> THEN {}
    ELSE IF Len(text) <= 2 THEN {text}
    ELSE {SubSeq(text, i, i + 1) : i \in 1..(Len(text) - 1)}

Min2(a, b) == IF a <= b THEN a ELSE b
Max2(a, b) == IF a >= b THEN a ELSE b

\* The overlap cutoff 0.55, in hundredths.
OverlapCutoff == 55

_is_clause_covered(clause, claims) ==
    LET normalized_clause == _normalize_text_for_match(clause)
        clause_ngrams == _char_ngrams(normalized_clause)
        Covers(claim) ==
            LET canonical == _normalize_text_for_match(claim.object_text_canonical)
                canonical_ngrams == _char_ngrams(canonical)
                overlap == Cardinality(clause_ngrams \cap canonical_ngrams)
                least == Max2(1, Min2(Cardinality(clause_ngrams),
                                      Cardinality(canonical_ngrams)))
            IN  /\ canonical # <<>>
                /\ \/ Contains(normalized_clause, canonical)
                   \/ Contains(canonical, normalized_clause)
                   \/ /\ canonical_ngrams # {}
                      /\ clause_ngrams # {}
                      /\ overlap * 100 >= OverlapCutoff * least
    IN  IF normalized_clause = <<>> THEN TRUE
        ELSE \E i \in 1..Len(claims) : Covers(claims[i])

_clause_to_fallback_claim(clause, occurred_at_utc) ==
    LET is_plan == ReSearchI(PLAN_HINT_ALTS, clause)
        excerpt == Take(clause, MaxExcerptLen)
    IN  ParsedClaim(
          [subject_text |-> <<"m","e">>,
           predicate |-> IF is_plan THEN <<"p","l","a","n","n","e","d">>
                         ELSE <<"d","i","d">>,
           object_text_raw |-> Take(clause, MaxObjectLen),
           object_text_canonical |-> Take(clause, MaxObjectLen),
           me_role |-> "actor",
           modality |-> IF is_plan THEN "plan" ELSE "fact",
           polarity |-> "affirm",
           certainty |-> IF is_plan THEN 72 ELSE 68,
           time_start_utc |-> occurred_at_utc,
           time_end_utc |-> NULL,
           subject_entity_name |-> <<>>,
           object_entity_name |-> <<>>,
           dimensions |-> <<>>,
           evidence_spans |-> <<ParsedEvidenceSpan(NoOffset, NoOffset,
               OrElse(excerpt, <<"a","c","t","i","o","n"," ",
                                 "c","l","a","u","s","e">>))>>,
           object_text |-> <<>>,
           origin |-> -1])

RECURSIVE AugmentFrom(_, _, _)
AugmentFrom(clauses, out, occurred_at_utc) ==
    IF clauses = <<>> THEN out
    ELSE LET clause == Head(clauses)
         IN  IF \/ Len(clause) < MinClauseLen
                \/ (~ReSearchI(ACTION_HINT_ALTS, clause)
                    /\ ~ReSearchI(PLAN_HINT_ALTS, clause))
                \/ _is_clause_covered(clause, out)
             THEN AugmentFrom(Tail(clauses), out, occurred_at_utc)
             ELSE AugmentFrom(Tail(clauses),
                              Append(out, _clause_to_fallback_claim(clause,
                                                                    occurred_at_utc)),
                              occurred_at_utc)

_augment_missing_action_claims(claims, raw_text, occurred_at_utc) ==
    AugmentFrom(_split_action_clauses(raw_text), claims, occurred_at_utc)

(***************************************************************************)
(* extract_claims_llm.py: apply_quality_gate and                           *)
(* normalize_to_me_centric_claims.  Claim indices are Python's (from 0):   *)
(* index i designates claims[i + 1].                                       *)
(***************************************************************************)

\* A gate that does not trim the text.
_is_quality_ok_untrimmed(claim) == claim.object_text_canonical # <<>>

_is_quality_ok(claim) == Strip(claim.object_text_canonical) # <<>>

\* The indices (from 0) of the claims that pass the gate, in order.
KeptIndexes(claims) ==
    SelectSeq([i \in 1..Len(claims) |-> i - 1],
              LAMBDA idx : _is_quality_ok(claims[idx + 1]))

\* An index_map that leaves every kept index as it is.
GateIndexMapIdentity(claims) ==
    [idx \in SeqRange(KeptIndexes(claims)) |-> idx]

\* index_map of apply_quality_gate: old index -> new index, on the kept claims.
GateIndexMap(claims) ==
    LET kept == KeptIndexes(claims)
    IN  [idx \in SeqRange(kept) |-> (CHOOSE k \in 1..Len(kept) : kept[k] = idx) - 1]

\* A re-indexing that keeps every link as it is.
RemapLinksUnfiltered(links, index_map) == links

\* The links both of whose indices are keys of index_map, re-indexed by it.
RemapLinks(links, index_map) ==
    LET ok == SelectSeq(links, LAMBDA link :
                  /\ link.from_claim_index \in DOMAIN index_map
                  /\ link.to_claim_index \in DOMAIN index_map)
    IN  [k \in 1..Len(ok) |->
            ParsedClaimLink(index_map[ok[k].from_claim_index],
                            index_map[ok[k].to_claim_index],
                            ok[k].relation_type, ok[k].confidence, ok[k].origin)]

\* Returns the pair (ParsedClaimsOutput, quality_flags) as a record.
apply_quality_gate(parsed) ==
    LET kept == KeptIndexes(parsed.claims)
        rejected == SelectSeq([i \in 1..Len(parsed.claims) |-> i - 1],
                              LAMBDA idx : ~_is_quality_ok(parsed.claims[idx + 1]))
    IN  [out |-> ParsedClaimsOutput(
                    [k \in 1..Len(kept) |-> parsed.claims[kept[k] + 1]],
                    parsed.entities,
                    RemapLinks(parsed.links, GateIndexMap(parsed.claims))),
         quality_flags |-> [k \in 1..Len(rejected) |->
                               <<"claim_rejected", rejected[k]>>]]

\* The body of the first loop of normalize_to_me_centric_claims.
NormalizeClaim(claim, raw_text, occurred_at_utc) ==
    LET subject_text == _normalize_subject_text(claim.subject_text)
        raw_object == Take(OrElse(claim.object_text_raw,
                                  OrElse(claim.object_text_canonical,
                                         claim.object_text)), MaxObjectLen)
        predicate == _canonicalize_predicate(claim.predicate, raw_object)
        normalized_object ==
            _restore_object_text_from_evidence_if_translated(
                Take(OrElse(claim.object_text_canonical, raw_object), MaxObjectLen),
                raw_text, claim.evidence_spans)
        me_role == IF subject_text = <<"m","e">> /\ claim.me_role = "none"
                   THEN "experiencer" ELSE claim.me_role
        normalized ==
            ParsedClaim([claim EXCEPT
                !.subject_text = subject_text,
                !.predicate = predicate,
                !.object_text_raw = raw_object,
                !.object_text_canonical = normalized_object,
                !.me_role = me_role,
                !.time_start_utc = TimeOr(claim.time_start_utc, occurred_at_utc),
                !.object_text = <<>>])
    IN  _ensure_single_evidence(normalized, raw_text)

\* The synthetic claim of lines 444-467.
ContextClaim(raw_text, occurred_at_utc) ==
    LET object == IF raw_text # <<>> THEN Take(raw_text, MaxContextLen)
                  ELSE <<"c","o","n","t","e","x","t"," ","e","v","e","n","t"," ",
                         "h","a","p","p","e","n","e","d">>
        excerpt == IF raw_text # <<>> THEN Take(raw_text, MaxContextLen)
                   ELSE <<"c","o","n","t","e","x","t"," ","e","v","e","n","t">>
    IN  ParsedClaim(
          [subject_text |-> <<"c","o","n","t","e","x","t">>,
           predicate |-> <<"h","a","p","p","e","n","e","d">>,
           object_text_raw |-> object,
           object_text_canonical |-> object,
           me_role |-> "none",
           modality |-> "fact",
           polarity |-> "affirm",
           certainty |-> 70,
           time_start_utc |-> occurred_at_utc,
           time_end_utc |-> NULL,
           subject_entity_name |-> <<>>,
           object_entity_name |-> <<>>,
           dimensions |-> <<>>,
           evidence_spans |-> <<ParsedEvidenceSpan(NoOffset, NoOffset, excerpt)>>,
           object_text |-> <<>>,
           origin |-> -1])

\* Confidences of the synthesized caused_by links, in hundredths.
CauseLinkConfidence == 75
ContextLinkConfidence == 72

\* One caused_by link from every decision claim to claim `cause_idx`.
CauseLinks(decision_indexes, cause_idx, confidence) ==
    [k \in 1..Len(decision_indexes) |->
        ParsedClaimLink(decision_indexes[k], cause_idx, "caused_by", confidence,
                        -1)]

\* index_map of normalize_to_me_centric_claims (lines 393-397).
NormalizeIndexMap(n) == IF n = 0 THEN [idx \in {0} |-> 0] ELSE [idx \in 0..(n - 1) |-> idx]

normalize_to_me_centric_claims(parsed, raw_text, occurred_at_utc) ==
    LET normalized_claims ==
            [i \in 1..Len(parsed.claims) |->
                NormalizeClaim(parsed.claims[i], raw_text, occurred_at_utc)]
        index_map == NormalizeIndexMap(Len(normalized_claims))
        with_fallback ==
            IF normalized_claims = <<>>
            THEN <<_make_fallback_me_claim(raw_text, occurred_at_utc)>>
            ELSE normalized_claims
        filtered_claims ==
            _augment_missing_action_claims(_apply_context_completion(with_fallback),
                                           raw_text, occurred_at_utc)
        filtered_links == RemapLinks(parsed.links, index_map)
        decision_indexes ==
            SelectSeq([i \in 1..Len(filtered_claims) |-> i - 1],
                      LAMBDA idx : filtered_claims[idx + 1].predicate
                                      \in DECISION_PREDICATES)
        has_decision_cause ==
            \E k \in 1..Len(filtered_links) :
                /\ filtered_links[k].relation_type = "caused_by"
                /\ filtered_links[k].from_claim_index \in SeqRange(decision_indexes)
        candidates ==
            {idx \in 0..(Len(filtered_claims) - 1) :
                /\ idx \notin SeqRange(decision_indexes)
                /\ \/ filtered_claims[idx + 1].predicate \in EVENT_PREDICATES
                   \/ ReSearchI(RAIN_HINT_ALTS,
                                filtered_claims[idx + 1].object_text_canonical)}
        links_1 ==
            IF decision_indexes # <<>> /\ ~has_decision_cause /\ candidates # {}
            THEN filtered_links
                 \o CauseLinks(decision_indexes,
                               CHOOSE c \in candidates : \A d \in candidates : c <= d,
                               CauseLinkConfidence)
            ELSE filtered_links
        add_context ==
            /\ decision_indexes # <<>>
            /\ ~\E i \in 1..Len(filtered_claims) :
                    filtered_claims[i].predicate \in EVENT_PREDICATES
            /\ (ReSearchI(RAIN_HINT_ALTS, raw_text) \/ ReSearchI(CAUSE_HINT_ALTS, raw_text))
    IN  IF add_context
        THEN ParsedClaimsOutput(
                Append(filtered_claims, ContextClaim(raw_text, occurred_at_utc)),
                parsed.entities,
                links_1 \o CauseLinks(decision_indexes, Len(filtered_claims),
                                      ContextLinkConfidence))
        ELSE ParsedClaimsOutput(filtered_claims, parsed.entities, links_1)

(***************************************************************************)
(* claim_schema_v2.py: parse_claims_output.                                *)
(*                                                                         *)
(* A JSON value is a record tagged with its type.  A JSON object is a      *)
(* record of its keys, a key it lacks holding JAbsent.  Texts (subject,     *)
(* predicate, object, excerpt, names, aliases, dimension values) are       *)
(* character sequences; the values of the enumerated fields and the        *)
(* timestamps are atoms, which the replies of the model give without       *)
(* surrounding white space and well within the slice lengths.              *)
(***************************************************************************)

JStr(v) == [t |-> "str", v |-> v]
JNum(v) == [t |-> "num", v |-> v]
JInt(v) == [t |-> "int", v |-> v]
JList(v) == [t |-> "list", v |-> v]
JObj(v) == [t |-> "obj", v |-> v]
JNull == [t |-> "null"]
JAbsent == [t |-> "absent"]

\* d.get(key, default)
Get(d, key, default) == IF d[key].t = "absent" THEN default ELSE d[key]

\* str(x) of a text value: a string or null.
PyStr(x) == CASE x.t = "str" -> x.v
              [] x.t = "null" -> <<"N","o","n","e">>

\* str(x).strip() of an atom value: a string or null.
PyAtom(x) == CASE x.t = "str" -> x.v
               [] x.t = "null" -> "None"

\* bool(x) of a text value.
Truthy(x) == CASE x.t = "str" -> x.v # <<>>
               [] x.t \in {"null", "absent"} -> FALSE

\* bool(x) of an atom value.
TruthyAtom(x) == CASE x.t = "str" -> x.v # ""
                   [] x.t \in {"null", "absent"} -> FALSE

\* float(x) succeeds: on a number.  (A string of the model's replies is no
\* numeral: ValueError; null, a list or an object: TypeError.)
FloatOk(x) == x.t \in {"num", "int"}

\* float(x), in hundredths.
FloatOf(x) == IF x.t = "int" THEN x.v * 100 ELSE x.v

\* Slice lengths of the parser.
MaxSpanExcerptLen == 500
MaxNameLen == 160
MaxDimensionLen == 200
MaxPredicateLen == 80

SUPPORTED_DIMENSION_TYPES ==
    {"person", "place", "activity", "emotion", "health", "topic", "project",
     "item", "reason", "time_hint"}
SUPPORTED_DIMENSION_SOURCES == {"llm", "rule", "manual"}

\* Lines 265-285: the spans of one item of "evidence_spans", none or one.
ParseSpan(span) ==
    IF span.t # "obj" THEN <<>>
    ELSE LET excerpt == Strip(PyStr(Get(span.v, "excerpt", JStr(<<>>))))
             char_start == Get(span.v, "char_start", JNull)
             char_end == Get(span.v, "char_end", JNull)
             cs == IF char_start.t = "int" /\ char_start.v >= 0
                   THEN char_start.v ELSE NoOffset
             ce == IF char_end.t = "int" /\ char_end.v >= 0
                   THEN char_end.v ELSE NoOffset
             unpaired == (cs = NoOffset) # (ce = NoOffset)
             reversed == cs # NoOffset /\ ce # NoOffset /\ ce <= cs
         IN  IF excerpt = <<>> THEN <<>>
             ELSE IF unpaired \/ reversed
                  THEN <<ParsedEvidenceSpan(NoOffset, NoOffset,
                                            Take(excerpt, MaxSpanExcerptLen))>>
             ELSE <<ParsedEvidenceSpan(cs, ce, Take(excerpt, MaxSpanExcerptLen))>>

\* Lines 292-317: the dimensions of one item of "dimensions", none or one.
ParseDimension(dim) ==
    IF dim.t # "obj" THEN <<>>
    ELSE LET dim_type == PyAtom(Get(dim.v, "dimension_type", JStr("")))
             dim_value == Strip(PyStr(Get(dim.v, "dimension_value", JStr(<<>>))))
             dim_source == PyAtom(Get(dim.v, "source", JStr("llm")))
             conf == Get(dim.v, "confidence", JNum(0))
         IN  IF \/ dim_type \notin SUPPORTED_DIMENSION_TYPES
                \/ dim_value = <<>>
                \/ dim_source \notin SUPPORTED_DIMENSION_SOURCES
             THEN <<>>
             ELSE IF ~FloatOk(conf) THEN <<>>
             ELSE IF FloatOf(conf) < 0 \/ FloatOf(conf) > 100 THEN <<>>
             ELSE <<[dimension_type |-> dim_type,
                     dimension_value |-> Take(dim_value, MaxDimensionLen),
                     confidence |-> FloatOf(conf),
                     source |-> dim_source]>>

\* The concatenation of the sequences of qq.
RECURSIVE Flatten(_)
Flatten(qq) == IF qq = <<>> THEN <<>> ELSE Head(qq) \o Flatten(Tail(qq))

\* Lines 233-344: the claims of item number idx (from 0) of "claims", none or one.
ParseClaimItem(item, idx) ==
    IF item.t # "obj" THEN <<>>
    ELSE LET d == item.v
             modality == PyAtom(Get(d, "modality", JStr("")))
             polarity == PyAtom(Get(d, "polarity", JStr("")))
             me_role == PyAtom(Get(d, "me_role", JStr("")))
             certainty == Get(d, "certainty", JNum(0))
             subject_text == Strip(PyStr(Get(d, "subject_text", JStr(<<>>))))
             predicate == Strip(PyStr(Get(d, "predicate", JStr(<<>>))))
             object_text_raw ==
                 Strip(PyStr(Get(d, "object_text_raw",
                                 Get(d, "object_text", JStr(<<>>)))))
             object_text_canonical ==
                 Strip(PyStr(Get(d, "object_text_canonical", JStr(object_text_raw))))
             evidence_rows == Get(d, "evidence_spans", JList(<<>>))
             evidence_spans == IF evidence_rows.t = "list"
                               THEN Flatten([i \in 1..Len(evidence_rows.v) |-> ParseSpan(evidence_rows.v[i])]) ELSE <<>>
             raw_dimensions == Get(d, "dimensions", JList(<<>>))
             dimensions == IF raw_dimensions.t = "list"
                           THEN Flatten([i \in 1..Len(raw_dimensions.v) |-> ParseDimension(raw_dimensions.v[i])]) ELSE <<>>
             Time(key) == IF TruthyAtom(d[key]) THEN PyAtom(d[key]) ELSE NULL
             Name(key) == IF Truthy(d[key])
                          THEN Take(Strip(PyStr(d[key])), MaxNameLen) ELSE <<>>
         IN  IF \/ modality \notin SUPPORTED_MODALITIES
                \/ polarity \notin SUPPORTED_POLARITIES
                \/ me_role \notin SUPPORTED_ME_ROLES
             THEN <<>>
             ELSE IF ~FloatOk(certainty) THEN <<>>
             ELSE IF FloatOf(certainty) < 0 \/ FloatOf(certainty) > 100 THEN <<>>
             ELSE IF predicate \notin SUPPORTED_PREDICATES THEN <<>>
             ELSE IF subject_text = <<>> \/ object_text_raw = <<>>
                     \/ object_text_canonical = <<>>
             THEN <<>>
             ELSE IF evidence_spans = <<>> THEN <<>>
             ELSE <<ParsedClaim(
                     [subject_text |-> Take(subject_text, MaxSubjectLen),
                      predicate |-> Take(predicate, MaxPredicateLen),
                      object_text_raw |-> Take(object_text_raw, MaxObjectLen),
                      object_text_canonical |-> Take(object_text_canonical,
                                                     MaxObjectLen),
                      me_role |-> me_role,
                      modality |-> modality,
                      polarity |-> polarity,
                      certainty |-> FloatOf(certainty),
                      time_start_utc |-> Time("time_start_utc"),
                      time_end_utc |-> Time("time_end_utc"),
                      subject_entity_name |-> Name("subject_entity_name"),
                      object_entity_name |-> Name("object_entity_name"),
                      dimensions |-> dimensions,
                      evidence_spans |-> evidence_spans,
                      object_text |-> <<>>,
                      origin |-> idx])>>

\* Lines 348-361: the entities of one item of "entities", none or one.
ParseEntity(item) ==
    IF item.t # "obj" THEN <<>>
    ELSE LET name == Strip(PyStr(Get(item.v, "name", JStr(<<>>))))
             entity_type == PyAtom(Get(item.v, "entity_type", JStr("")))
             raw_aliases == Get(item.v, "aliases", JList(<<>>))
             Alias(a) == IF a.t = "str" /\ Strip(a.v) # <<>>
                         THEN <<Take(Strip(a.v), MaxNameLen)>> ELSE <<>>
         IN  IF name = <<>> \/ entity_type \notin SUPPORTED_ENTITY_TYPES THEN <<>>
             ELSE <<[name |-> Take(name, MaxNameLen),
                     entity_type |-> entity_type,
                     aliases |-> IF raw_aliases.t = "list"
                                 THEN Flatten([i \in 1..Len(raw_aliases.v) |-> Alias(raw_aliases.v[i])]) ELSE <<>>]>>

\* Lines 365-388: the links of item number idx (from 0) of "links", none or one.
ParseLink(item, idx) ==
    IF item.t # "obj" THEN <<>>
    ELSE LET relation_type == PyAtom(Get(item.v, "relation_type", JStr("")))
             fidx == Get(item.v, "from_claim_index", JNull)
             tidx == Get(item.v, "to_claim_index", JNull)
             confidence == Get(item.v, "confidence", JNum(0))
         IN  IF relation_type \notin SUPPORTED_RELATIONS THEN <<>>
             ELSE IF fidx.t # "int" \/ tidx.t # "int" THEN <<>>
             ELSE IF ~FloatOk(confidence) THEN <<>>
             ELSE IF FloatOf(confidence) < 0 \/ FloatOf(confidence) > 100 THEN <<>>
             ELSE <<ParsedClaimLink(fidx.v, tidx.v, relation_type,
                                    FloatOf(confidence), idx)>>

RECURSIVE ParseClaimItems(_, _)
ParseClaimItems(items, idx) ==
    IF idx >= Len(items) THEN <<>>
    ELSE ParseClaimItem(items[idx + 1], idx) \o ParseClaimItems(items, idx + 1)

RECURSIVE ParseLinkItems(_, _)
ParseLinkItems(items, idx) ==
    IF idx >= Len(items) THEN <<>>
    ELSE ParseLink(items[idx + 1], idx) \o ParseLinkItems(items, idx + 1)

\* `for item in raw_claims` raises TypeError when "claims" is null.
ParseRaises(payload) == Get(payload, "claims", JList(<<>>)).t = "null"

\* parse_claims_output(payload), where it returns.
parse_claims_output(payload) ==
    LET raw_claims == Get(payload, "claims", JList(<<>>))
        raw_entities == Get(payload, "entities", JList(<<>>))
        raw_links == Get(payload, "links", JList(<<>>))
    IN  ParsedClaimsOutput(
            ParseClaimItems(raw_claims.v, 0),
            IF raw_entities.t = "list" THEN Flatten([i \in 1..Len(raw_entities.v) |-> ParseEntity(raw_entities.v[i])])
            ELSE <<>>,
            IF raw_links.t = "list" THEN ParseLinkItems(raw_links.v, 0) ELSE <<>>)

(***************************************************************************)
(* The inputs of the extraction pipeline: the replies of the model, the    *)
(* entry texts, and ParsedClaimsOutput values handed to the normalizer and *)
(* to the gate directly.                                                   *)
(***************************************************************************)

\* The most items in "claims" of a reply, and claims in a direct input.
MaxItems == 2

\* occurred_at_utc of the document.
OccurredAt == "2026-01-01T00:00:00Z"

\* One item of "claims" as the prompt's schema shapes it.
ClaimItem(modality, subject_text, predicate, object_text_raw) ==
    JObj([modality |-> JStr(modality),
          polarity |-> JStr("affirm"),
          me_role |-> JStr("none"),
          certainty |-> JNum(90),
          subject_text |-> JStr(subject_text),
          predicate |-> JStr(predicate),
          object_text_raw |-> JStr(object_text_raw),
          object_text |-> JAbsent,
          object_text_canonical |-> JAbsent,
          evidence_spans |->
              JList(<<JObj([excerpt |-> JStr(object_text_raw),
                            char_start |-> JInt(0),
                            char_end |-> JInt(Len(object_text_raw))])>>),
          dimensions |-> JList(<<>>),
          time_start_utc |-> JNull,
          time_end_utc |-> JNull,
          subject_entity_name |-> JNull,
          object_entity_name |-> JNull])

\* One item of "links".
LinkItem(fidx, tidx) ==
    JObj([relation_type |-> JStr("caused_by"),
          from_claim_index |-> fidx,
          to_claim_index |-> tidx,
          confidence |-> JNum(80)])

\* "links" of a reply: none, or one link, whose indices may lie outside the
\* claims or be no integers.
LinkPairs == {<<0, 0>>, <<0, 1>>, <<1, 0>>, <<1, 1>>, <<-1, 0>>, <<0, 2>>, <<2, 1>>}

\* All sequences over S of length at most n.
SeqsUpTo(S, n) == UNION {[1..k -> S] : k \in 0..n}

\* The replies: "claims" is a list of at most MaxItems items, or null.  The
\* items are a decision claim, an event claim, an item with an unsupported
\* modality, an item that is no object, an item whose spans have offsets in
\* the wrong order, a blank excerpt and one offset only, and an item whose
\* only span has a blank excerpt.
ReplyPool ==
    LET Span(excerpt, char_start, char_end) ==
            JObj([excerpt |-> JStr(excerpt), char_start |-> char_start,
                  char_end |-> char_end])
        ItemPool ==
            {ClaimItem("fact", <<"I">>, <<"d","e","c","i","d","e","d">>,
                       <<"t","e","a">>),
             ClaimItem("fact", <<"m","e">>,
                       <<"e","x","p","e","r","i","e","n","c","e","d">>,
                       <<"r","a","i","n">>),
             ClaimItem("guess", <<"I">>, <<"d","e","c","i","d","e","d">>,
                       <<"t","e","a">>),
             JNull,
             [ClaimItem("fact", <<"I">>, <<"e","n","d","e","d">>, <<"r","u","n">>)
                 EXCEPT !.v.evidence_spans =
                     JList(<<Span(<<"r","u","n">>, JInt(3), JInt(1)),
                             Span(<<" ">>, JInt(0), JInt(1)),
                             Span(<<"r","u","n">>, JInt(0), JNull)>>)],
             [ClaimItem("fact", <<"I">>, <<"e","n","d","e","d">>, <<"r","u","n">>)
                 EXCEPT !.v.evidence_spans =
                     JList(<<Span(<<" ">>, JInt(0), JInt(1))>>)]}
        LinksPool ==
            {JList(<<>>), JList(<<LinkItem(JNull, JInt(0))>>)}
            \cup {JList(<<LinkItem(JInt(p[1]), JInt(p[2]))>>) : p \in LinkPairs}
    IN  {[claims |-> JList(items), entities |-> JList(<<>>), links |-> links] :
            items \in SeqsUpTo(ItemPool, MaxItems), links \in LinksPool}
        \cup {[claims |-> JNull, entities |-> JList(<<>>), links |-> JList(<<>>)]}

\* The reply before the model was asked.
NoReply == [claims |-> JAbsent, entities |-> JAbsent, links |-> JAbsent]

\* An entry text that starts with as many blanks as the context claim takes
\* characters of it, the rain hint after them.
BlankLedText == [i \in 1..MaxContextLen |-> " "] \o <<"r","a","i","n">>

\* The entry texts: one that the claims cover, one with a rain hint and a plan
\* clause that no claim covers, one led by blanks.
TextPool == {<<"t","e","a">>,
             <<"r","a","i","n"," ","t","o","d","o"," ","r","u","n">>,
             BlankLedText}

\* The object texts of three scenes of context completion: two claims that
\* name a topic before a fragment; a fragment before the claim that names the
\* topic and one after it; the claims of
\* test_context_completion_for_fragmented_state_change.
StateChangeScenes ==
    {<<<<"t","h","r","o","a","t"," ","s","o","r","e">>,
       <<"h","e","a","l","t","h"," ","p","o","o","r">>,
       <<"w","o","r","s","e","n","e","d">>>>,
     <<<<"w","o","r","s","e","n","e","d">>,
       <<"t","h","r","o","a","t"," ","s","o","r","e">>,
       <<"r","e","c","o","v","e","r","e","d">>>>,
     <<<<"u5589","u306e","u8abf","u5b50","u304c","u60aa","u304f","u306a","u308a">>,
       <<"u571f","u66dc","u65e5","u306f","u3055","u3089","u306b","u60aa","u5316","u3057","u305f">>>>}

\* A claim built by a caller of the normalizer, object texts as given.
DirectClaim(predicate, object_text, origin) ==
    ParsedClaim([subject_text |-> <<"I">>,
                 predicate |-> predicate,
                 object_text_raw |-> object_text,
                 object_text_canonical |-> object_text,
                 me_role |-> "none",
                 modality |-> "fact",
                 polarity |-> "affirm",
                 certainty |-> 90,
                 time_start_utc |-> NULL,
                 time_end_utc |-> NULL,
                 subject_entity_name |-> <<>>,
                 object_entity_name |-> <<>>,
                 dimensions |-> <<>>,
                 evidence_spans |-> <<>>,
                 object_text |-> <<>>,
                 origin |-> origin])

\* The direct inputs: at most MaxItems claims and the links of LinkPairs.  The
\* shapes of a direct claim: a decision, an alias of a predicate with a blank
\* object, an empty object.  And the inputs of three scenes: an event of
\* another subject and two decisions, with or without a caused_by link of the
\* first decision; a claim of another subject whose predicate is none of the
\* vocabulary; a claim with a blank object before two others, an entity, and
\* three links of which the second ends at the blank claim; the scenes of
\* context completion.
DirectPool ==
    LET DirectShapes ==
            {<<<<"d","e","c","i","d","e","d">>, <<"t","e","a">>>>,
             <<<<"v","i","s","i","t","e","d">>, <<" ", " ">>>>,
             <<<<"d","i","d">>, <<>>>>}
        Sky(predicate, origin) ==
            [DirectClaim(predicate, <<"r","a","i","n">>, origin)
                EXCEPT !.subject_text = <<"s","k","y">>]
        Decisions ==
            <<Sky(<<"h","a","p","p","e","n","e","d">>, 0),
              DirectClaim(<<"d","e","c","i","d","e","d">>, <<"t","e","a">>, 1),
              DirectClaim(<<"e","n","d","e","d">>, <<"r","u","n">>, 2)>>
    IN  {ParsedClaimsOutput(
            [i \in 1..Len(shapes) |->
                DirectClaim(shapes[i][1], shapes[i][2], i - 1)],
            <<>>,
            links) :
            shapes \in SeqsUpTo(DirectShapes, MaxItems),
            links \in {<<>>} \cup {<<ParsedClaimLink(p[1], p[2], "supports", 80, 0)>> :
                                     p \in LinkPairs}}
        \cup {ParsedClaimsOutput(Decisions, <<>>, <<>>),
              ParsedClaimsOutput(Decisions, <<>>,
                                 <<ParsedClaimLink(1, 0, "caused_by", 80, 0)>>),
              ParsedClaimsOutput(<<Sky(<<"r","a","i","n","e","d">>, 0)>>,
                                 <<>>, <<>>),
              ParsedClaimsOutput(
                  <<DirectClaim(<<"d","e","c","i","d","e","d">>, <<" ">>, 0),
                    DirectClaim(<<"d","e","c","i","d","e","d">>, <<"t","e","a">>, 1),
                    DirectClaim(<<"e","n","d","e","d">>, <<"r","u","n">>, 2)>>,
                  <<[name |-> <<"A","l">>, entity_type |-> "person",
                     aliases |-> <<>>]>>,
                  <<ParsedClaimLink(2, 1, "supports", 80, 0),
                    ParsedClaimLink(1, 0, "supports", 70, 1),
                    ParsedClaimLink(1, 2, "caused_by", 60, 2)>>)}
        \cup {ParsedClaimsOutput(
                  [i \in 1..Len(objects) |->
                      DirectClaim(<<"f","e","l","t">>, objects[i], i - 1)],
                  <<>>, <<>>) : objects \in StateChangeScenes}

EmptyOutput == ParsedClaimsOutput(<<>>, <<>>, <<>>)

(***************************************************************************)
(* The store, as one connection sees it (the neon backend, on which the   *)
(* statements of insert_claim_bundle run): one set of rows per table.      *)
(* Identifiers are the integers _new_id hands out, never twice; a          *)
(* timestamp is a reading of the clock, NoTime for NULL.                   *)
(*                                                                         *)
(* A step that writes threads a record `st` through its statements:        *)
(*   db       the tables                                                   *)
(*   next_id  the next identifier of _new_id                               *)
(*   writes   the number of exec_write calls made                          *)
(*   fail_at  the exec_write call that raises (0: none does)               *)
(*   raised   whether that call was reached; the statements after it do    *)
(*            not run                                                      *)
(***************************************************************************)

\* NULL of a timestamp column, None of next_retry_at.
NoTime == -1

\* _new_id(): the identifier, and st with the identifier consumed.
_new_id(st) == [id |-> st.next_id, st |-> [st EXCEPT !.next_id = @ + 1]]

\* exec_write(conn, ...) of a statement that turns table `t` into `rows`.
exec_write(st, t, rows) ==
    IF st.raised THEN st
    ELSE IF st.writes + 1 = st.fail_at THEN [st EXCEPT !.raised = TRUE]
    ELSE [st EXCEPT !.writes = @ + 1, !.db[t] = rows]

\* The rows of INSERT ... ON CONFLICT DO NOTHING of `row` into `rows`: a row
\* with the same generated identifier is the conflict.
InsertOrIgnore(rows, row) ==
    IF \E r \in rows : r.id = row.id THEN rows ELSE rows \cup {row}

\* The rows of the alias insert: a row with the same normalized alias is the
\* conflict.
InsertAliasOrIgnore(rows, row) ==
    IF \E r \in rows : r.normalized_alias = row.normalized_alias
    THEN rows ELSE rows \cup {row}

\* re.sub(r"\s+", " ", value)
RECURSIVE CollapseSpaces(_)
CollapseSpaces(s) ==
    IF s = <<>> THEN <<>>
    ELSE IF IsSpace(Head(s))
         THEN <<" ">> \o CollapseSpaces(LStrip(s))
         ELSE <<Head(s)>> \o CollapseSpaces(Tail(s))

Digits == {"0", "1", "2", "3", "4", "5", "6", "7", "8", "9"}

\* \w on the characters of the model.
IsWord(c) ==
    \/ c \in SeqRange(UpperLetters) \cup SeqRange(LowerLetters) \cup Digits \cup {"_"}
    \/ c \in CJK_CHARS \cup {"u00e2", "u02c6"}

_normalize_alias(value) ==
    LET cleaned == Lower(Strip(CollapseSpaces(value)))
    IN  SelectSeq(cleaned, LAMBDA c : IsWord(c) \/ c \in {"u30fc", " "})

\* A soft delete that marks nothing.
soft_delete_claims_skipped(st, entry_id, dry_run, now) == st

\* soft_delete_claims(conn, entry_id, dry_run) at time `now`.
soft_delete_claims(st, entry_id, dry_run, now) ==
    IF dry_run THEN st
    ELSE exec_write(st, "claims",
            {IF r.entry_id = entry_id /\ r.deleted_at = NoTime
             THEN [r EXCEPT !.deleted_at = now, !.status = "superseded"]
             ELSE r : r \in st.db.claims})

\* ensure_entity: the identifier of the entity, and st after it.
ensure_entity(st, name, entity_type, dry_run) ==
    LET found == {r \in st.db.entities :
                     r.entity_type = entity_type /\ r.canonical_name = name}
        new == _new_id(st)
    IN  IF found # {} THEN [id |-> (CHOOSE r \in found : TRUE).id, st |-> st]
        ELSE IF dry_run THEN new
        ELSE [id |-> new.id,
              st |-> exec_write(new.st, "entities",
                        new.st.db.entities
                        \cup {[id |-> new.id, entity_type |-> entity_type,
                               canonical_name |-> name]})]

ensure_entity_alias(st, entity_id, alias, dry_run) ==
    LET normalized_alias == _normalize_alias(alias)
        new == _new_id(st)
    IN  IF normalized_alias = <<>> \/ dry_run THEN st
        ELSE exec_write(new.st, "aliases",
                InsertAliasOrIgnore(new.st.db.aliases,
                    [id |-> new.id, entity_id |-> entity_id, alias |-> alias,
                     normalized_alias |-> normalized_alias]))

\* In the operations below an argument that carries the connection is bound
\* once, by a quantifier over the set of its one value, as Python evaluates an
\* argument once.

\* Lines 829-830: the aliases of one entity.
RECURSIVE EnsureAliases(_, _, _, _)
EnsureAliases(conn, entity_id, aliases, dry_run) ==
    CHOOSE out \in
        {IF aliases = <<>> \/ st.raised THEN st
         ELSE EnsureAliases(
                ensure_entity_alias(st, entity_id, Head(aliases), dry_run),
                entity_id, Tail(aliases), dry_run) : st \in {conn}} : TRUE

\* Lines 818-830: acc is [st, entity_ids_by_name, entities_upserted].
RECURSIVE EnsureEntities(_, _, _)
EnsureEntities(acc0, entities, dry_run) ==
    CHOOSE out \in
        {IF entities = <<>> \/ acc.st.raised THEN acc
         ELSE CHOOSE next \in
                {IF e.st.raised THEN [acc EXCEPT !.st = e.st]
                 ELSE EnsureEntities(
                        [st |-> EnsureAliases(e.st, e.id, Head(entities).aliases,
                                              dry_run),
                         entity_ids_by_name |->
                            (Head(entities).name :> e.id) @@ acc.entity_ids_by_name,
                         entities_upserted |-> acc.entities_upserted + 1],
                        Tail(entities), dry_run)
                 : e \in {ensure_entity(acc.st, Head(entities).name,
                                        Head(entities).entity_type, dry_run)}} : TRUE
         : acc \in {acc0}} : TRUE

\* entity_ids_by_name.get(name) if name else None; 0 is NULL.
EntityIdOf(entity_ids_by_name, name) ==
    IF name # <<>> /\ name \in DOMAIN entity_ids_by_name
    THEN entity_ids_by_name[name] ELSE 0

\* Lines 904-928: the dimension rows of the claim `claim_id`.
RECURSIVE InsertDimensions(_, _, _)
InsertDimensions(conn, claim_id, dims) ==
    CHOOSE out \in
        {IF dims = <<>> \/ st.raised THEN st
         ELSE LET dim == Head(dims)
                  normalized_value == _normalize_alias(dim.dimension_value)
                  new == _new_id(st)
                  row == [id |-> new.id, claim_id |-> claim_id,
                          dimension_type |-> dim.dimension_type,
                          dimension_value |-> dim.dimension_value,
                          normalized_value |-> OrElse(normalized_value,
                                                      Lower(dim.dimension_value)),
                          confidence |-> dim.confidence, source |-> dim.source]
              IN  InsertDimensions(
                     exec_write(new.st, "dimensions",
                                InsertOrIgnore(new.st.db.dimensions, row)),
                     claim_id, Tail(dims)) : st \in {conn}} : TRUE

\* Lines 930-953: the evidence rows of the claim; acc is [st, evidence_inserted].
RECURSIVE InsertSpans(_, _, _, _)
InsertSpans(acc0, claim_id, document_id, spans) ==
    CHOOSE out \in
        {IF spans = <<>> \/ acc.st.raised THEN acc
         ELSE LET span == Head(spans)
                  new == _new_id(acc.st)
                  row == [id |-> new.id, claim_id |-> claim_id,
                          document_id |-> document_id,
                          char_start |-> span.char_start,
                          char_end |-> span.char_end, excerpt |-> span.excerpt]
                  rowcount == IF \E r \in new.st.db.evidence : r.id = new.id
                              THEN 0 ELSE 1
              IN  CHOOSE next \in
                    {InsertSpans(
                        [st |-> st1,
                         evidence_inserted |-> IF ~st1.raised /\ rowcount = 1
                                               THEN acc.evidence_inserted + 1
                                               ELSE acc.evidence_inserted],
                        claim_id, document_id, Tail(spans))
                     : st1 \in {exec_write(new.st, "evidence",
                                   InsertOrIgnore(new.st.db.evidence, row))}} : TRUE
         : acc \in {acc0}} : TRUE

\* Lines 837-953: acc is [st, claim_ids_by_index, claims_inserted,
\* evidence_inserted]; ctx is [document, extraction_id, entity_ids_by_name,
\* dry_run, now].
RECURSIVE InsertClaims(_, _, _, _)
InsertClaims(acc0, claims, idx, ctx0) ==
    CHOOSE out \in
        {IF idx >= Len(claims) \/ acc.st.raised THEN acc
         ELSE LET claim == claims[idx + 1]
                  new == _new_id(acc.st)
                  ids == (idx :> new.id) @@ acc.claim_ids_by_index
                  row == [id |-> new.id,
                          document_id |-> ctx.document.id,
                          entry_id |-> ctx.document.entry_id,
                          subject_text |-> claim.subject_text,
                          subject_entity_id |->
                              EntityIdOf(ctx.entity_ids_by_name,
                                         claim.subject_entity_name),
                          predicate |-> claim.predicate,
                          object_text |-> claim.object_text_canonical,
                          object_text_raw |-> claim.object_text_raw,
                          object_text_canonical |-> claim.object_text_canonical,
                          object_entity_id |->
                              EntityIdOf(ctx.entity_ids_by_name,
                                         claim.object_entity_name),
                          me_role |-> claim.me_role,
                          modality |-> claim.modality,
                          polarity |-> claim.polarity,
                          certainty |-> claim.certainty,
                          quality_score |-> claim.certainty,
                          time_start_utc |-> claim.time_start_utc,
                          time_end_utc |-> claim.time_end_utc,
                          status |-> "active",
                          extraction_id |-> ctx.extraction_id,
                          created_at |-> ctx.now,
                          deleted_at |-> NoTime]
                  rowcount == IF \E r \in new.st.db.claims : r.id = new.id
                              THEN 0 ELSE 1
              IN  IF ctx.dry_run
                  THEN InsertClaims(
                         [st |-> new.st, claim_ids_by_index |-> ids,
                          claims_inserted |-> acc.claims_inserted + 1,
                          evidence_inserted |-> acc.evidence_inserted
                                                + Len(claim.evidence_spans)],
                         claims, idx + 1, ctx)
                  ELSE CHOOSE next \in
                    {IF st1.raised \/ rowcount # 1
                     THEN InsertClaims(
                            [acc EXCEPT !.st = st1, !.claim_ids_by_index = ids],
                            claims, idx + 1, ctx)
                     ELSE CHOOSE after \in
                        {InsertClaims(
                            [st |-> sp.st, claim_ids_by_index |-> ids,
                             claims_inserted |-> acc.claims_inserted + 1,
                             evidence_inserted |-> sp.evidence_inserted],
                            claims, idx + 1, ctx)
                         : sp \in {InsertSpans(
                                [st |-> InsertDimensions(st1, new.id,
                                                         claim.dimensions),
                                 evidence_inserted |-> acc.evidence_inserted],
                                new.id, ctx.document.id,
                                claim.evidence_spans)}} : TRUE
                     : st1 \in {exec_write(new.st, "claims",
                                   InsertOrIgnore(new.st.db.claims, row))}} : TRUE
         : acc \in {acc0}, ctx \in {ctx0}} : TRUE

\* Lines 955-978: acc is [st, links_inserted].
RECURSIVE InsertLinks(_, _, _, _)
InsertLinks(acc0, links, ids, ctx) ==
    CHOOSE out \in
        {IF links = <<>> \/ acc.st.raised THEN acc
         ELSE LET link == Head(links)
                  known == /\ link.from_claim_index \in DOMAIN claim_ids_by_index
                           /\ link.to_claim_index \in DOMAIN claim_ids_by_index
                  new == _new_id(acc.st)
                  row == [id |-> new.id,
                          from_claim_id |-> claim_ids_by_index[link.from_claim_index],
                          to_claim_id |-> claim_ids_by_index[link.to_claim_index],
                          relation_type |-> link.relation_type,
                          confidence |-> link.confidence]
                  rowcount == IF \E r \in new.st.db.links : r.id = new.id
                              THEN 0 ELSE 1
              IN  IF ~known
                  THEN InsertLinks(acc, Tail(links), claim_ids_by_index, ctx)
                  ELSE IF ctx.dry_run
                  THEN InsertLinks([acc EXCEPT !.links_inserted = @ + 1],
                                   Tail(links), claim_ids_by_index, ctx)
                  ELSE CHOOSE next \in
                    {InsertLinks(
                        [st |-> st1,
                         links_inserted |-> IF ~st1.raised /\ rowcount = 1
                                            THEN acc.links_inserted + 1
                                            ELSE acc.links_inserted],
                        Tail(links), claim_ids_by_index, ctx)
                     : st1 \in {exec_write(new.st, "links",
                                   InsertOrIgnore(new.st.db.links, row))}} : TRUE
         : acc \in {acc0}, claim_ids_by_index \in {ids}} : TRUE

\* insert_claim_bundle at time `now`: st after it and the four counts.  When
\* st.raised, the call raised and returned nothing.
insert_claim_bundle(st, document, parsed, extraction_id, replace_existing, dry_run, now) ==
    CHOOSE out \in
      {CHOOSE inserted \in
         {CHOOSE linked \in
            {[st |-> ln.st,
              claims_inserted |-> cl.claims_inserted,
              evidence_inserted |-> cl.evidence_inserted,
              entities_upserted |-> ents.entities_upserted,
              links_inserted |-> ln.links_inserted]
             : ln \in {InsertLinks([st |-> cl.st, links_inserted |-> 0],
                                   parsed.links, cl.claim_ids_by_index,
                                   [dry_run |-> dry_run])}} : TRUE
          : cl \in {InsertClaims(
                      [st |-> ents.st, claim_ids_by_index |-> <<>>,
                       claims_inserted |-> 0, evidence_inserted |-> 0],
                      parsed.claims, 0,
                      [document |-> document, extraction_id |-> extraction_id,
                       entity_ids_by_name |-> ents.entity_ids_by_name,
                       dry_run |-> dry_run, now |-> now])}} : TRUE
       : ents \in {EnsureEntities(
                     [st |-> IF replace_existing
                             THEN soft_delete_claims(st, document.entry_id,
                                                     dry_run, now)
                             ELSE st,
                      entity_ids_by_name |-> <<>>, entities_upserted |-> 0],
                     parsed.entities, dry_run)}} : TRUE

(***************************************************************************)
(* redaction.py: the score of a text, its risk and the text for the model.  *)
(* Scores are in hundredths.                                                *)
(***************************************************************************)

\* The last position of the longest run of characters of `class` that starts
\* at position p of text; p - 1 when there is none.
RunEnd(text, p, class) ==
    CHOOSE k \in (p - 1)..Len(text) :
        /\ \A q \in p..k : text[q] \in class
        /\ k = Len(text) \/ text[k + 1] \notin class

\* \b before position p of text.
WordBoundary(text, p) ==
    (p > 1 /\ p - 1 <= Len(text) /\ IsWord(text[p - 1]))
        # (p >= 1 /\ p <= Len(text) /\ IsWord(text[p]))

\* The names of SECRET_PATTERNS, EMAIL_RE, PHONE_RE and POSTAL_RE.
SECRET_PATTERNS == <<"secret_token", "secret_assignment">>

\* The last position of the match of the pattern that begins at position i of
\* text, as re matches it (greedy, backtracking); 0 when there is none.
PatternMatchEnd(pattern, text, i) ==
    LET n == Len(text)
        At(p) == IF p >= 1 /\ p <= n THEN text[p] ELSE ""
        Letters == SeqRange(UpperLetters) \cup SeqRange(LowerLetters)
        Alnum == Letters \cup Digits
        Spaces == {" ", "\n", "\t", "\r", "u3000"}
        SecretToken ==
            LET e == RunEnd(text, i + 3, Alnum)
            IN  IF /\ WordBoundary(text, i)
                   /\ <<At(i), At(i + 1), At(i + 2)>> = <<"s", "k", "-">>
                   /\ e - (i + 3) + 1 >= 20
                   /\ WordBoundary(text, e + 1)
                THEN e ELSE 0
        Keywords == {<<"a","p","i","_","k","e","y">>, <<"a","p","i","-","k","e","y">>,
                     <<"a","p","i","k","e","y">>, <<"s","e","c","r","e","t">>,
                     <<"t","o","k","e","n">>, <<"p","a","s","s","w","o","r","d">>,
                     <<"p","a","s","s","w","d">>}
        SecretAssignment ==
            LET ks == {k \in Keywords :
                          /\ i + Len(k) - 1 <= n
                          /\ Lower(SubSeq(text, i, i + Len(k) - 1)) = k
                          /\ WordBoundary(text, i + Len(k))}
                k == CHOOSE k \in ks : TRUE
                sep == RunEnd(text, i + Len(k), Spaces) + 1
                quote == RunEnd(text, sep + 1, Spaces) + 1
                value == IF At(quote) \in {"'", "\""} THEN quote + 1 ELSE quote
                e == RunEnd(text, value, Alnum \cup {"_", "-"})
            IN  IF /\ WordBoundary(text, i)
                   /\ ks # {}
                   /\ At(sep) \in {":", "="}
                   /\ e - value + 1 >= 12
                THEN e ELSE 0
        Email ==
            LET local == RunEnd(text, i, Alnum \cup {".", "_", "%", "+", "-"})
                domain == RunEnd(text, local + 2, Alnum \cup {".", "-"})
                TldEnd(dot) == RunEnd(text, dot + 1, Letters)
                dots == {dot \in (local + 3)..domain :
                            /\ text[dot] = "."
                            /\ TldEnd(dot) - dot >= 2
                            /\ ~IsWord(At(TldEnd(dot) + 1))}
            IN  IF /\ WordBoundary(text, i)
                   /\ local >= i
                   /\ At(local + 1) = "@"
                   /\ dots # {}
                THEN TldEnd(CHOOSE dot \in dots : \A o \in dots : o <= dot)
                ELSE 0
        Phone ==
            LET first == IF At(i) = "+" THEN i + 1 ELSE i
                run == RunEnd(text, first + 1,
                              Digits \cup {"-", "(", ")"} \cup Spaces)
                lasts == {q \in (first + 9)..run : text[q] \in Digits}
            IN  IF At(first) \in Digits /\ lasts # {}
                THEN CHOOSE q \in lasts : \A o \in lasts : o <= q
                ELSE 0
        Postal ==
            IF /\ WordBoundary(text, i)
               /\ \A p \in (i..(i + 2)) \cup ((i + 4)..(i + 7)) : At(p) \in Digits
               /\ At(i + 3) = "-"
               /\ WordBoundary(text, i + 8)
            THEN i + 7 ELSE 0
    IN  CASE pattern = "secret_token" -> SecretToken
          [] pattern = "secret_assignment" -> SecretAssignment
          [] pattern = "EMAIL_RE" -> Email
          [] pattern = "PHONE_RE" -> Phone
          [] pattern = "POSTAL_RE" -> Postal

\* pattern.search(text)
PatternSearch(pattern, text) ==
    \E i \in 1..Len(text) : PatternMatchEnd(pattern, text, i) > 0

\* score = max(score, ...) over the patterns that match, from 0.0; min(score, 1.0).
estimate_pii_score(text) ==
    LET PATTERN_SCORES ==
            [secret_token |-> 95, secret_assignment |-> 95, EMAIL_RE |-> 55,
             PHONE_RE |-> 65, POSTAL_RE |-> 70]
        scores == {0} \cup {PATTERN_SCORES[pattern] :
                               pattern \in {q \in DOMAIN PATTERN_SCORES :
                                               PatternSearch(q, text)}}
    IN  CHOOSE score \in {Min2(m, 100) : m \in {x \in scores :
                                                   \A y \in scores : y <= x}} : TRUE

\* A classification that takes a score for medium from 0.60 on only.
classify_risk_from_60(pii_score) ==
    IF pii_score >= 90 THEN "high"
    ELSE IF pii_score >= 60 THEN "medium"
    ELSE "low"

classify_risk(pii_score) ==
    IF pii_score >= 90 THEN "high"
    ELSE IF pii_score >= 50 THEN "medium"
    ELSE "low"

\* The string literal of repl: three characters.
MASK_FILLER == <<"u00e2", "u2013", "u02c6">>

\* pattern.sub(repl, text) from position pos on.
RECURSIVE MaskFrom(_, _, _)
MaskFrom(text, pattern, pos) ==
    IF pos > Len(text) THEN <<>>
    ELSE LET e == PatternMatchEnd(pattern, text, pos)
         IN  IF e > 0
             THEN Flatten([k \in 1..(e - pos + 1) |-> MASK_FILLER])
                      \o MaskFrom(text, pattern, e + 1)
             ELSE <<text[pos]>> \o MaskFrom(text, pattern, pos + 1)

_mask_with_same_length(text, pattern) == MaskFrom(text, pattern, 1)

\* masked = _mask_with_same_length(masked, pattern), one pattern after another.
RECURSIVE MaskEach(_, _)
MaskEach(masked, patterns) ==
    IF patterns = <<>> THEN masked
    ELSE CHOOSE out \in
            {MaskEach(next, Tail(patterns))
             : next \in {_mask_with_same_length(masked, Head(patterns))}} : TRUE

mask_text(text) ==
    MaskEach(text, SECRET_PATTERNS \o <<"EMAIL_RE", "PHONE_RE", "POSTAL_RE">>)

\* redact_for_llm(text): the RedactionResult.
redact_for_llm(text) ==
    CHOOSE out \in
        {[original_text |-> text,
          llm_text |-> CASE risk_level = "high" -> <<>>
                         [] risk_level = "medium" -> mask_text(text)
                         [] OTHER -> text,
          pii_score |-> pii_score,
          risk_level |-> risk_level,
          redaction_state |-> CASE risk_level = "high" -> "blocked"
                                [] risk_level = "medium" -> "masked"
                                [] OTHER -> "none"]
         : <<pii_score, risk_level>> \in
              {<<score, classify_risk(score)>>
               : score \in {estimate_pii_score(text)}}} : TRUE

\* The tables before any document.
EmptyStore ==
    [documents |-> {}, claims |-> {}, evidence |-> {}, dimensions |-> {},
     links |-> {}, entities |-> {}, aliases |-> {}, requests |-> {},
     artifacts |-> {}]

\* A row of fact_documents; the document of entry n is document n.
Document(n, text) ==
    [id |-> n, entry_id |-> n, raw_text |-> text, pii_score |-> 0,
     redaction_state |-> "pending", occurred_at_utc |-> OccurredAt]

\* What lines 1204 and 1360-1366 make of a reply.
Pipeline(reply, text) ==
    CHOOSE out \in
        {CHOOSE gated \in
            {apply_quality_gate(normalized)
             : normalized \in {normalize_to_me_centric_claims(
                                  claims, text, OccurredAt)}} : TRUE
         : claims \in {parse_claims_output(reply)}} : TRUE

\* A reply of one decision claim; a reply of a decision and an event claim with
\* a dimension, an entity with two spellings of its alias, and a link; a reply
\* whose only item is dropped; a reply that holds the decision claim twice.
RunReplyPool ==
    LET decision == ClaimItem("fact", <<"I">>, <<"d","e","c","i","d","e","d">>,
                              <<"t","e","a">>)
        event == ClaimItem("fact", <<"A","l">>,
                           <<"e","x","p","e","r","i","e","n","c","e","d">>,
                           <<"r","a","i","n">>)
        dim == JObj([dimension_type |-> JStr("topic"),
                     dimension_value |-> JStr(<<"T","e","a","!">>),
                     source |-> JStr("llm"), confidence |-> JNum(80)])
        al == JObj([name |-> JStr(<<"A","l">>), entity_type |-> JStr("person"),
                    aliases |-> JList(<<JStr(<<"A","L">>), JStr(<<" ","a","l","."," ">>)>>)])
    IN  {[claims |-> JList(<<decision>>), entities |-> JList(<<>>),
          links |-> JList(<<>>)],
         [claims |-> JList(<<[decision EXCEPT !.v.dimensions = JList(<<dim>>)],
                             [event EXCEPT !.v.subject_entity_name =
                                               JStr(<<"A","l">>)]>>),
          entities |-> JList(<<al>>),
          links |-> JList(<<LinkItem(JInt(0), JInt(1))>>)],
         [claims |-> JList(<<JNull>>), entities |-> JList(<<>>),
          links |-> JList(<<>>)],
         [claims |-> JList(<<decision, decision>>), entities |-> JList(<<>>),
          links |-> JList(<<>>)]}

(***************************************************************************)
(* run and what it calls: fetch_document, update_document_redaction_state, *)
(* extract_with_llm and its logs, the except clause, commit and rollback.   *)
(* Of the result payload the fields that name the worker, the job and the   *)
(* tokens of the request are left out.                                      *)
(***************************************************************************)

\* The rows fetch_document selects from; LIMIT 1 returns one of them, None
\* when there is none.  0 is an argument that was not given.
fetch_document(tables, entry_id, document_id) ==
    IF document_id # 0 THEN {r \in tables.documents : r.id = document_id}
    ELSE IF entry_id # 0 THEN {r \in tables.documents : r.entry_id = entry_id}
    ELSE {}

\* An update of the redaction state that writes nothing.
update_document_redaction_state_skipped(st, document_id, pii_score, redaction_state, dry_run) ==
    st

\* Lines 716-730: UPDATE fact_documents SET pii_score, redaction_state.
update_document_redaction_state(st, document_id, pii_score, redaction_state, dry_run) ==
    IF dry_run THEN st
    ELSE exec_write(st, "documents",
            {IF r.id = document_id
             THEN [r EXCEPT !.pii_score = pii_score,
                            !.redaction_state = redaction_state]
             ELSE r : r \in st.db.documents})

\* try: exec_write(...) except Exception: return -- of the two logs.
Swallowed(st) ==
    IF st.raised THEN [st EXCEPT !.raised = FALSE, !.writes = @ + 1] ELSE st

\* log_openai_request on the backend that is not sqlite.
log_openai_request(st, status, source_ref_id) ==
    LET new == _new_id(st)
    IN  Swallowed(exec_write(new.st, "requests",
            new.st.db.requests
            \cup {[id |-> new.id, status |-> status,
                   source_ref_id |-> source_ref_id]}))

\* log_analysis_artifact on the backend that is not sqlite.
log_analysis_artifact(st, extraction_id, artifact_type, dry_run) ==
    LET new == _new_id(st)
    IN  IF dry_run \/ extraction_id = 0 THEN st
        ELSE Swallowed(exec_write(new.st, "artifacts",
                new.st.db.artifacts
                \cup {[id |-> new.id, extraction_id |-> extraction_id,
                       artifact_type |-> artifact_type]}))

\* extract_with_llm when urlopen does `outcome`, "ok" being the answer `reply`:
\* st after it, the message of what it raises (NULL: it returns) and parsed.
extract_with_llm(st, document, outcome, reply, extraction_id, dry_run) ==
    LET prompt == log_analysis_artifact(st, extraction_id, "prompt_meta", dry_run)
        Logged(status, artifact_type) ==
            log_analysis_artifact(
                log_openai_request(prompt, status, document.entry_id),
                extraction_id, artifact_type, dry_run)
    IN  CASE outcome = "timed out" ->
               [st |-> prompt, exc |-> outcome, parsed |-> EmptyOutput]
          [] outcome \in {"LLM HTTPError", "LLM URLError"} ->
               [st |-> Logged("error", "validation_error"), exc |-> outcome,
                parsed |-> EmptyOutput]
          [] outcome = "ok" /\ ParseRaises(reply) ->
               [st |-> Logged("error", "validation_error"), exc |-> "LLM parse failed",
                parsed |-> EmptyOutput]
          [] OTHER ->
               [st |-> Logged("ok", "response_meta"), exc |-> NULL,
                parsed |-> parse_claims_output(reply)]

\* timedelta(minutes=5)
RetryDelay == 5

\* The except clause of run on the result, raised at time `now`, that loses
\* the retry.
ExceptClauseNoRetry(res, message, now) ==
    [res EXCEPT !.status = "queued", !.error_code = "retryable_error",
                !.error = [msg |-> message, flags |-> <<>>]]

\* Lines 1389-1394: the except clause of run on the result.
ExceptClause(res, message, now) ==
    [res EXCEPT !.status = "queued", !.error_code = "retryable_error",
                !.next_retry_at = now + RetryDelay,
                !.error = [msg |-> message, flags |-> <<>>]]

\* A commit that makes the work durable even when it raises.
conn_commit_torn(working, durable, ok) == working

\* conn.commit(): the durable tables after it; when it raises they are as
\* they were.
conn_commit(working, durable, ok) == IF ok THEN working ELSE durable

\* A text of high risk: sk- and twenty letters.
SecretText == <<"s", "k", "-">> \o [k \in 1..20 |-> "a"]

\* The store run is started on, and the next identifier: the documents of
\* three entries, of low, high and medium risk, and of a fourth whose text is
\* of low risk and whose stored pii_score is 0.95; an active claim of an
\* earlier extraction for each of the first two.
InitStore ==
    LET documents == {Document(1, <<"t","e","a">>), Document(2, SecretText),
                      Document(3, <<"a","@","b",".","c","o">>),
                      [Document(4, <<"t","e","a">>) EXCEPT !.pii_score = 95]}
        old == ParsedClaimsOutput(
                  <<DirectClaim(<<"d","e","c","i","d","e","d">>,
                                <<"t","e","a">>, 0)>>, <<>>, <<>>)
    IN  CHOOSE out \in
          {CHOOSE two \in
             {insert_claim_bundle(
                 _new_id(one.st).st, Document(2, SecretText), old,
                 _new_id(one.st).id, FALSE, FALSE, 0).st
              : one \in {insert_claim_bundle(
                            first.st, Document(1, <<"t","e","a">>), old,
                            first.id, FALSE, FALSE, 0)}} : TRUE
           : first \in {_new_id([db |-> [EmptyStore EXCEPT
                                            !.documents = documents],
                                 next_id |-> 1, writes |-> 0, fail_at |-> 0,
                                 raised |-> FALSE])}} : TRUE

\* The bundles handed to insert_claim_bundle.
BundlePool == {Pipeline(reply, <<"t","e","a">>).out : reply \in RunReplyPool}

\* The most calls of insert_claim_bundle in a row.
MaxCalls == 2

(***************************************************************************)
(* extract_key_facts.py: dedupe_facts.  Of a Fact the subject, predicate   *)
(* and object text are kept; origin is the place of the fact in the input.  *)
(***************************************************************************)

Fact(subject, predicate, object_text, origin) ==
    [subject |-> subject, predicate |-> predicate, object_text |-> object_text,
     origin |-> origin]

\* Fact.key()
FactKey(fact) ==
    <<Strip(fact.subject), Strip(fact.predicate), Strip(fact.object_text)>>

_norm_lemma(value) == Lower(Strip(value))

\* tokenize_with_lemma where SudachiPy is not installed or is disabled: [].
tokenize_with_lemma(text) == <<>>

\* Without tokens: the text without blanks, lowercased, and of it the digits,
\* the small letters, the kana, the kanji and the long-vowel mark.
_normalize_for_dedupe(text) ==
    LET tokens == tokenize_with_lemma(text)
        cleaned == Lower(SelectSeq(text, LAMBDA c : ~IsSpace(c)))
    IN  IF tokens # <<>> THEN tokens
        ELSE SelectSeq(cleaned,
                       LAMBDA c : c \in Digits \cup SeqRange(LowerLetters)
                                        \cup CJK_CHARS \cup {"u30fc"})

\* The loop of dedupe_facts from fact i on.
RECURSIVE DedupeFrom(_, _, _, _, _, _)
DedupeFrom(facts, i, max_facts, seen_exact, seen_normalized, out) ==
    IF i > Len(facts) THEN out
    ELSE LET fact == facts[i]
             key == FactKey(fact)
             normalized_key == <<_norm_lemma(fact.subject),
                                 _norm_lemma(fact.predicate),
                                 _normalize_for_dedupe(fact.object_text)>>
         IN  IF key[1] = <<>> \/ key[2] = <<>> \/ key[3] = <<>>
             THEN DedupeFrom(facts, i + 1, max_facts, seen_exact,
                             seen_normalized, out)
             ELSE IF key \in seen_exact \/ normalized_key \in seen_normalized
             THEN DedupeFrom(facts, i + 1, max_facts, seen_exact,
                             seen_normalized, out)
             ELSE IF Len(out) + 1 >= max_facts THEN Append(out, fact)
             ELSE DedupeFrom(facts, i + 1, max_facts,
                             seen_exact \cup {key},
                             seen_normalized \cup {normalized_key},
                             Append(out, fact))

dedupe_facts(facts, max_facts) == DedupeFrom(facts, 1, max_facts, {}, {}, <<>>)

\* The most facts handed to dedupe_facts, and the greatest cap.
MaxFacts == 3

\* The lists of facts handed to dedupe_facts: repeated triples, triples that
\* differ by blanks and capitals only, an object of blanks, an object of
\* punctuation and an empty subject.
FactsPool ==
    LET me == <<"m","e">>
        learned == <<"l","e","a","r","n","e","d">>
        Triples ==
            {<<me, learned, <<"r","e","t","r","y"," ","u6226","u7565">>>>,
             <<me, learned, <<"r","e","t","r","y","u6226","u7565">>>>,
             <<<<" ","M","e">>, learned, <<"R","e","t","r","y","u6226","u7565">>>>,
             <<me, learned, <<"t","e","a">>>>,
             <<me, learned, <<" ">>>>,
             <<me, learned, <<"!">>>>,
             <<<<>>, learned, <<"t","e","a">>>>}
    IN  {[k \in 1..Len(ts) |-> Fact(ts[k][1], ts[k][2], ts[k][3], k)]
         : ts \in SeqsUpTo(Triples, MaxFacts)}

VARIABLES
    pipe_pc,        \* where the pipeline stands
    pipe_src,       \* "reply": the input is a reply; "direct": a direct input
    payload,        \* the reply of the model, json.loads of its text
    raw_text,       \* the text of the entry
    parsed,         \* the ParsedClaimsOutput in hand
    quality_flags,  \* the flags of apply_quality_gate
    db,             \* the tables as the open connection sees them
    next_id,        \* the next identifier of _new_id
    clock,          \* the time
    bundle_log,     \* the calls of insert_claim_bundle made, in order
    run_pc,         \* where run stands
    args,           \* the arguments of run and the environment
    document,       \* the row fetch_document returned
    result,         \* the result payload
    committed,      \* the tables as committed
    exc,            \* what the try block of run raised, and when
    events,         \* the calls of run to the outside, in order
    fn_pc,          \* where the function called on its own stands
    fn_args,        \* the arguments it is called with
    fn_ret,         \* what its calls returned, in order
    txn             \* the invocations of run that share the store, by name

pipe_vars == <<pipe_pc, pipe_src, payload, raw_text, parsed, quality_flags>>
store_vars == <<db, next_id, clock>>
run_vars == <<run_pc, args, document, result, committed, exc, events>>
fn_vars == <<fn_pc, fn_args, fn_ret>>
vars == <<pipe_vars, store_vars, bundle_log, run_vars, fn_vars, txn>>

\* The connection as the call of an operation finds it.
Conn(fail_at) ==
    [db |-> db, next_id |-> next_id, writes |-> 0, fail_at |-> fail_at,
     raised |-> FALSE]

\* No function called on its own.
FnIdleButTxn ==
    /\ fn_pc = "idle"
    /\ fn_args = <<>>
    /\ fn_ret = <<>>

\* No function called on its own, and no invocations that share the store.
FnIdle == FnIdleButTxn /\ txn = <<>>

\* The pipeline at rest.
PipeIdle ==
    /\ pipe_pc = "idle"
    /\ pipe_src = "none"
    /\ payload = NoReply
    /\ raw_text = <<>>
    /\ parsed = EmptyOutput
    /\ quality_flags = <<>>

\* The arguments of run: whether it is a dry run, whether the claims of the
\* entry are replaced, whether the variable of the API key is set, and the
\* document asked for, by its identifier or by its entry.
ArgsPool ==
    [dry_run : BOOLEAN, replace_existing : BOOLEAN, api_key : BOOLEAN,
     target : {[document_id |-> 1, entry_id |-> 0],
               [document_id |-> 2, entry_id |-> 0],
               [document_id |-> 0, entry_id |-> 3],
               [document_id |-> 4, entry_id |-> 0],
               [document_id |-> 9, entry_id |-> 1],
               [document_id |-> 0, entry_id |-> 0]}]

\* Before fetch_document.
NoDocument == Document(0, <<>>)

\* Nothing raised.
NoExc == [msg |-> NULL, at |-> NoTime]

\* Lines 1292-1313: the result payload before the try block.
InitResult(a, extraction_id) ==
    [extraction_id |-> extraction_id,
     entry_id |-> a.target.entry_id,
     document_id |-> a.target.document_id,
     status |-> "failed",
     claims_inserted |-> 0, evidence_inserted |-> 0,
     entities_upserted |-> 0, links_inserted |-> 0,
     error_code |-> NULL,
     next_retry_at |-> NoTime,
     error |-> [msg |-> NULL, flags |-> <<>>],
     dry_run |-> a.dry_run]

\* The store of two entries without claims, no call made, and run at rest.
StoreIdle ==
    /\ db = [EmptyStore EXCEPT !.documents = {Document(1, <<"t","e","a">>),
                                              Document(2, <<"t","e","a">>)}]
    /\ next_id = 1
    /\ clock = 0
    /\ bundle_log = <<>>
    /\ run_pc = "idle"
    /\ args \in {a \in ArgsPool : ~a.dry_run /\ ~a.replace_existing /\ ~a.api_key
                                    /\ a.target.document_id = 1}
    /\ document = NoDocument
    /\ result = InitResult(args, 0)
    /\ committed = db
    /\ exc = NoExc
    /\ events = <<>>

(***************************************************************************)
(* SpecPipe: parse_claims_output, normalize_to_me_centric_claims and       *)
(* apply_quality_gate applied in the order run applies them (lines         *)
(* 1350-1356), and the last two applied to direct inputs.                  *)
(***************************************************************************)

InitPipe ==
    /\ StoreIdle
    /\ FnIdle
    /\ raw_text \in TextPool
    /\ quality_flags = <<>>
    /\ \/ /\ pipe_src = "reply"
          /\ pipe_pc = "reply"
          /\ payload \in ReplyPool
          /\ parsed = EmptyOutput
       \/ /\ pipe_src = "direct"
          /\ pipe_pc \in {"parsed", "ungated"}
          /\ payload = NoReply
          /\ parsed \in DirectPool

\* parsed = parse_claims_output(payload)
PipeParse ==
    /\ pipe_pc = "reply"
    /\ IF ParseRaises(payload)
       THEN pipe_pc' = "raised" /\ UNCHANGED parsed
       ELSE pipe_pc' = "parsed" /\ parsed' = parse_claims_output(payload)
    /\ UNCHANGED <<pipe_src, payload, raw_text, quality_flags, store_vars, bundle_log, run_vars, fn_vars, txn>>

\* parsed = normalize_to_me_centric_claims(parsed, raw_text, occurred_at_utc)
PipeNormalize ==
    /\ pipe_pc = "parsed"
    /\ parsed' = normalize_to_me_centric_claims(parsed, raw_text, OccurredAt)
    /\ pipe_pc' = "normalized"
    /\ UNCHANGED <<pipe_src, payload, raw_text, quality_flags, store_vars, bundle_log, run_vars, fn_vars, txn>>

\* parsed, quality_flags = apply_quality_gate(parsed)
PipeGate ==
    /\ pipe_pc \in {"normalized", "ungated"}
    /\ LET gated == apply_quality_gate(parsed)
       IN  /\ parsed' = gated.out
           /\ quality_flags' = gated.quality_flags
    /\ pipe_pc' = "gated"
    /\ UNCHANGED <<pipe_src, payload, raw_text, store_vars, bundle_log, run_vars, fn_vars, txn>>

NextPipe == PipeParse \/ PipeNormalize \/ PipeGate

SpecPipe == InitPipe /\ [][NextPipe]_vars

(***************************************************************************)
(* Properties of the pipeline.                                             *)
(***************************************************************************)

\* C2: every link in the output of normalize_to_me_centric_claims, and in the
\* output of apply_quality_gate applied to it, has from_claim_index and
\* to_claim_index in 0 .. (number of claims of that same output) - 1, whatever
\* the claims, the link indices and the raw text of the input.
C2_LinkIndexesInRange ==
    pipe_pc \in {"normalized", "gated"} =>
        \A k \in 1..Len(parsed.links) :
            /\ parsed.links[k].from_claim_index \in 0..(Len(parsed.claims) - 1)
            /\ parsed.links[k].to_claim_index \in 0..(Len(parsed.claims) - 1)

\* C2 witness: the gate rejected a claim of a normalized input and a link
\* survived, re-indexed.
C2_Witness ==
    /\ pipe_pc = "gated"
    /\ quality_flags # <<>>
    /\ parsed.links # <<>>

\* C3: after parse_claims_output, normalize_to_me_centric_claims and
\* apply_quality_gate, every link of the final output that was taken from the
\* reply joins the two claims built from the items of "claims" that its
\* from_claim_index and to_claim_index designate in the reply; so a link one of
\* whose items was dropped is absent, and no link is re-pointed.
C3_LinksNeverRepointed ==
    (pipe_src = "reply" /\ pipe_pc = "gated") =>
        \A k \in 1..Len(parsed.links) :
            LET link == parsed.links[k]
            IN  link.origin >= 0 =>
                  LET item == payload.links.v[link.origin + 1].v
                  IN  /\ link.from_claim_index \in 0..(Len(parsed.claims) - 1)
                      /\ link.to_claim_index \in 0..(Len(parsed.claims) - 1)
                      /\ parsed.claims[link.from_claim_index + 1].origin
                            = item.from_claim_index.v
                      /\ parsed.claims[link.to_claim_index + 1].origin
                            = item.to_claim_index.v

\* C4: apply_quality_gate keeps exactly the claims of its input whose canonical
\* object text is non-empty after trimming, in their input order, and returns
\* exactly one flag claim_rejected:<i> for each rejected claim, i its position
\* in the input; kept claims + flags = input claims.
C4_GateKeepsNonEmpty ==
    [][(pipe_pc' = "gated" /\ pipe_pc # "gated") =>
        LET NonEmpty(c) == Strip(c.object_text_canonical) # <<>>
            rejected == {i \in 0..(Len(parsed.claims) - 1) :
                            ~NonEmpty(parsed.claims[i + 1])}
        IN  /\ parsed'.claims = SelectSeq(parsed.claims, NonEmpty)
            /\ Len(quality_flags') = Cardinality(rejected)
            /\ {quality_flags'[k] : k \in 1..Len(quality_flags')}
                  = {<<"claim_rejected", i>> : i \in rejected}
            /\ Len(parsed'.claims) + Len(quality_flags') = Len(parsed.claims)]_vars

\* C4 witness: the gate rejected the first claim of two, whose text was blank,
\* and kept the second, a three-letter one.
C4_Witness ==
    /\ pipe_pc = "gated"
    /\ quality_flags = <<<<"claim_rejected", 0>>>>
    /\ Len(parsed.claims) = 1
    /\ parsed.claims[1].object_text_canonical = <<"t","e","a">>
    /\ parsed.claims[1].origin = 1

\* normalize_to_me_centric_claims has just returned.
Normalizing == pipe_pc = "parsed" /\ pipe_pc' = "normalized"

\* The claim _make_fallback_me_claim synthesizes.
IsMeFallback(c) ==
    /\ c.origin = -1
    /\ c.subject_text = <<"m","e">>
    /\ c.predicate = <<"e","x","p","e","r","i","e","n","c","e","d">>
    /\ c.modality = "fact"

\* The subject of claim c is not a reference to me.
OtherSubject(c) ==
    /\ Strip(c.subject_text) # <<>>
    /\ Lower(Strip(c.subject_text)) \notin ME_REFERENCE_ALTS

\* C11 as stated: normalize_to_me_centric_claims never returns zero claims;
\* of an empty claim list it returns the single synthesized claim of me; of a
\* non-empty one it adds no such claim and keeps every input claim at its
\* index, a subject that is not me and its predicate as they are.
C11_NormalizeKeepsAsTheyAre ==
    [][Normalizing =>
        /\ parsed'.claims # <<>>
        /\ parsed.claims = <<>> =>
              /\ Len(parsed'.claims) = 1
              /\ IsMeFallback(parsed'.claims[1])
        /\ parsed.claims # <<>> =>
              /\ Len(parsed'.claims) >= Len(parsed.claims)
              /\ \A j \in 1..Len(parsed'.claims) : ~IsMeFallback(parsed'.claims[j])
              /\ \A i \in 1..Len(parsed.claims) :
                    /\ parsed'.claims[i].origin = parsed.claims[i].origin
                    /\ OtherSubject(parsed.claims[i]) =>
                          /\ parsed'.claims[i].subject_text
                                = parsed.claims[i].subject_text
                          /\ parsed'.claims[i].predicate
                                = parsed.claims[i].predicate]_vars

\* C11 amended: normalize_to_me_centric_claims never returns zero claims; of
\* an empty claim list it returns the synthesized claim of me first, and that
\* claim alone when the trimmed text is no longer than the object of a claim
\* may be; of a non-empty one it adds no such claim and keeps every input
\* claim at its index, a subject that is not me trimmed and cut to its cap,
\* and a predicate of the vocabulary trimmed, any other predicate mapped into
\* the vocabulary.
C11_NormalizeKeepsCanonical ==
    [][Normalizing =>
        /\ parsed'.claims # <<>>
        /\ parsed.claims = <<>> =>
              /\ IsMeFallback(parsed'.claims[1])
              /\ Len(Strip(raw_text)) <= MaxObjectLen => Len(parsed'.claims) = 1
        /\ parsed.claims # <<>> =>
              /\ Len(parsed'.claims) >= Len(parsed.claims)
              /\ \A j \in 1..Len(parsed'.claims) : ~IsMeFallback(parsed'.claims[j])
              /\ \A i \in 1..Len(parsed.claims) :
                    /\ parsed'.claims[i].origin = parsed.claims[i].origin
                    /\ OtherSubject(parsed.claims[i]) =>
                          parsed'.claims[i].subject_text
                            = Take(Strip(parsed.claims[i].subject_text), MaxSubjectLen)
                    /\ parsed'.claims[i].predicate \in SUPPORTED_PREDICATES
                    /\ Strip(parsed.claims[i].predicate) \in SUPPORTED_PREDICATES =>
                          parsed'.claims[i].predicate
                            = Strip(parsed.claims[i].predicate)]_vars

\* C11 witness: the event of another subject was kept first, as it was, before
\* the two decisions, and no claim was added.
C11_Witness ==
    /\ pipe_pc = "normalized"
    /\ Len(parsed.claims) = 3
    /\ parsed.claims[1].subject_text = <<"s","k","y">>
    /\ parsed.claims[1].predicate = <<"h","a","p","p","e","n","e","d">>
    /\ parsed.claims[1].origin = 0
    /\ parsed.claims[2].subject_text = <<"m","e">>
    /\ parsed.claims[3].origin = 2

\* Claim c of a normalized output may be the cause of a decision: it is of
\* event type or its text matches the hint of a cause.
MayCause(c) ==
    \/ c.predicate \in EVENT_PREDICATES
    \/ ReSearchI(RAIN_HINT_ALTS, c.object_text_canonical)

\* C12 as stated: after normalize_to_me_centric_claims every decision claim
\* without an outgoing caused_by link among the input links, that some event
\* claim or claim matching the hint precedes, has a caused_by link of
\* confidence 0.75 to the first such claim, each decision claim for itself,
\* also when another decision claim has a caused_by link; and all input
\* claims are retained.
C12_EveryDecisionLinkedToCause ==
    [][Normalizing =>
        /\ Len(parsed'.claims) >= Len(parsed.claims)
        /\ \A i \in 1..Len(parsed.claims) :
              parsed'.claims[i].origin = parsed.claims[i].origin
        /\ \A d \in 0..(Len(parsed'.claims) - 1) :
              LET causes == {c \in 0..(d - 1) : MayCause(parsed'.claims[c + 1])}
              IN  (/\ parsed'.claims[d + 1].predicate \in DECISION_PREDICATES
                   /\ ~\E k \in 1..Len(parsed.links) :
                         /\ parsed.links[k].relation_type = "caused_by"
                         /\ parsed.links[k].from_claim_index = d
                   /\ causes # {})
                  => \E k \in 1..Len(parsed'.links) :
                        /\ parsed'.links[k].relation_type = "caused_by"
                        /\ parsed'.links[k].from_claim_index = d
                        /\ parsed'.links[k].to_claim_index
                              = CHOOSE c \in causes : \A e \in causes : c <= e
                        /\ parsed'.links[k].confidence = CauseLinkConfidence]_vars

\* C17: parse_claims_output raises for no reply that is a JSON object, and
\* it returns the claims it keeps in the order of the reply.
C17_ParseNeverRaises ==
    /\ pipe_pc # "raised"
    /\ (pipe_src = "reply" /\ pipe_pc = "parsed") =>
          \A k \in 2..Len(parsed.claims) :
              parsed.claims[k - 1].origin < parsed.claims[k].origin

\* The spans are well formed: the excerpt is not empty and the offsets are
\* both absent, or both present with the end after the start.
SpansWellFormed(claims) ==
    \A k \in 1..Len(claims) :
        \A n \in 1..Len(claims[k].evidence_spans) :
            LET span == claims[k].evidence_spans[n]
            IN  /\ span.excerpt # <<>>
                /\ \/ span.char_start = NoOffset /\ span.char_end = NoOffset
                   \/ /\ span.char_start # NoOffset
                      /\ span.char_end # NoOffset
                      /\ span.char_end > span.char_start

\* C18: every claim normalize_to_me_centric_claims returns has an evidence
\* span, and every span of a claim parse_claims_output returned or the
\* normalizer made has an excerpt that is not empty and offsets both absent
\* or both present with the end after the start.
C18_EveryClaimHasEvidence ==
    /\ pipe_pc = "normalized" =>
          /\ \A k \in 1..Len(parsed.claims) :
                parsed.claims[k].evidence_spans # <<>>
          /\ SpansWellFormed(parsed.claims)
    /\ (pipe_src = "reply" /\ pipe_pc = "parsed") => SpansWellFormed(parsed.claims)

\* The normalizer returned a claim of the reply whose offsets the parser took
\* away, a claim with its offsets, and a claim it made itself.
C18_Witness ==
    /\ pipe_pc = "normalized"
    /\ pipe_src = "reply"
    /\ \E k \in 1..Len(parsed.claims) :
          /\ parsed.claims[k].origin >= 0
          /\ Len(parsed.claims[k].evidence_spans) = 2
          /\ parsed.claims[k].evidence_spans[1].char_start = NoOffset
    /\ \E k \in 1..Len(parsed.claims) :
          /\ parsed.claims[k].origin >= 0
          /\ parsed.claims[k].evidence_spans[1].char_end = 3
    /\ \E k \in 1..Len(parsed.claims) : parsed.claims[k].origin < 0

\* C19: apply_quality_gate keeps a link iff the claims both of its indices
\* designate pass the gate; the kept links come in their input order with
\* their relation_type and confidence, their new indices designate the claims
\* their old indices designated, and the entities are as they were.
C19_GateKeepsLinksOfSurvivors ==
    [][(pipe_pc' = "gated" /\ pipe_pc # "gated") =>
        LET Survives(i) ==
                /\ i \in 0..(Len(parsed.claims) - 1)
                /\ Strip(parsed.claims[i + 1].object_text_canonical) # <<>>
            Rank(i) == Cardinality({j \in 0..(i - 1) : Survives(j)})
            ok == SelectSeq(parsed.links, LAMBDA link :
                      /\ Survives(link.from_claim_index)
                      /\ Survives(link.to_claim_index))
        IN  /\ Len(parsed'.links) = Len(ok)
            /\ \A k \in 1..Len(ok) :
                  LET link == parsed'.links[k]
                  IN  /\ link.relation_type = ok[k].relation_type
                      /\ link.confidence = ok[k].confidence
                      /\ link.origin = ok[k].origin
                      /\ link.from_claim_index = Rank(ok[k].from_claim_index)
                      /\ link.to_claim_index = Rank(ok[k].to_claim_index)
                      /\ parsed'.claims[link.from_claim_index + 1]
                            = parsed.claims[ok[k].from_claim_index + 1]
                      /\ parsed'.claims[link.to_claim_index + 1]
                            = parsed.claims[ok[k].to_claim_index + 1]
            /\ parsed'.entities = parsed.entities]_vars

\* The gate rejected the first claim of three: of the three links the first
\* and the third are kept, in that order, re-indexed, and the entity is kept.
C19_Witness ==
    /\ pipe_pc = "gated"
    /\ quality_flags = <<<<"claim_rejected", 0>>>>
    /\ Len(parsed.claims) = 2
    /\ parsed.entities # <<>>
    /\ parsed.links = <<ParsedClaimLink(1, 0, "supports", 80, 0),
                        ParsedClaimLink(0, 1, "caused_by", 60, 2)>>

\* The claim the normalizer synthesizes of the raw text: subject "context",
\* predicate "happened".
IsContextClaim(c) ==
    /\ c.origin = -1
    /\ c.subject_text = <<"c","o","n","t","e","x","t">>
    /\ c.predicate = <<"h","a","p","p","e","n","e","d">>

\* Link `l` is a caused_by link the normalizer synthesized.
IsSynthesizedCause(l) == l.origin = -1 /\ l.relation_type = "caused_by"

\* C23: normalize_to_me_centric_claims appends the context claim only when
\* there is a decision claim, no claim that may be a cause (none was linked by
\* the search before) and the raw text holds a hint; it appends at most one,
\* and the links of confidence 0.72 to it start at exactly the decision claims
\* that have no other caused_by link.
C23_ContextClaimOnlyWithoutCause ==
    [][Normalizing =>
        LET out == parsed'
            n == Len(out.claims)
            ctx == {j \in 0..(n - 1) : IsContextClaim(out.claims[j + 1])}
            decisions == {d \in 0..(n - 1) :
                            out.claims[d + 1].predicate \in DECISION_PREDICATES}
            ToContext(l) == /\ IsSynthesizedCause(l)
                            /\ l.confidence = ContextLinkConfidence
            HasOtherCause(d) ==
                \E k \in 1..Len(out.links) :
                    /\ out.links[k].relation_type = "caused_by"
                    /\ out.links[k].from_claim_index = d
                    /\ ~ToContext(out.links[k])
        IN  /\ Cardinality(ctx) <= 1
            /\ ctx = {} => \A k \in 1..Len(out.links) : ~ToContext(out.links[k])
            /\ \A j \in ctx :
                  /\ j = n - 1
                  /\ decisions # {}
                  /\ \A c \in (0..(n - 1)) \ (decisions \cup {j}) :
                        ~MayCause(out.claims[c + 1])
                  /\ \A d \in decisions : ~HasOtherCause(d)
                  /\ \/ ReSearchI(RAIN_HINT_ALTS, raw_text)
                     \/ ReSearchI(CAUSE_HINT_ALTS, raw_text)
                  /\ {out.links[k].from_claim_index :
                        k \in {m \in 1..Len(out.links) : ToContext(out.links[m])}}
                        = {d \in decisions : ~HasOtherCause(d)}
                  /\ \A k \in 1..Len(out.links) :
                        ToContext(out.links[k]) => out.links[k].to_claim_index = j]_vars

\* C27: in the output of normalize_to_me_centric_claims each decision claim
\* is the source of at most one synthesized caused_by link, so never of both
\* the link of confidence 0.75 and the link of confidence 0.72, and a
\* decision claim with a caused_by link in the input is the source of none.
C27_OneSynthesizedCausePerDecision ==
    [][Normalizing =>
        \A d \in 0..(Len(parsed'.claims) - 1) :
            LET synthesized ==
                    {k \in 1..Len(parsed'.links) :
                        /\ IsSynthesizedCause(parsed'.links[k])
                        /\ parsed'.links[k].from_claim_index = d}
            IN  /\ Cardinality(synthesized) <= 1
                /\ (\E k \in 1..Len(parsed.links) :
                        /\ parsed.links[k].relation_type = "caused_by"
                        /\ parsed.links[k].from_claim_index = d)
                    => synthesized = {}]_vars

\* C28: every link in the output of normalize_to_me_centric_claims is an
\* input link between two input claims or a synthesized caused_by link; of an
\* empty claim list, whose output starts with the synthesized claim of me, no
\* input link is carried into the output.
C28_NoInputLinkOnFallback ==
    [][Normalizing =>
        /\ \A k \in 1..Len(parsed'.links) :
              LET link == parsed'.links[k]
              IN  \/ IsSynthesizedCause(link)
                  \/ /\ link.origin >= 0
                     /\ link.from_claim_index \in 0..(Len(parsed.claims) - 1)
                     /\ link.to_claim_index \in 0..(Len(parsed.claims) - 1)
                     /\ parsed'.claims[link.from_claim_index + 1].origin >= 0
                     /\ parsed'.claims[link.to_claim_index + 1].origin >= 0
        /\ parsed.claims = <<>> =>
              \A k \in 1..Len(parsed'.links) : parsed'.links[k].origin < 0]_vars

\* C29: of claims that parse_claims_output produced and any raw text, every
\* claim in the output of normalize_to_me_centric_claims has a canonical
\* object text that is not empty after trimming; so apply_quality_gate rejects
\* none of them, and its output holds a claim (run does not raise
\* quality_gate_rejected_all_claims).
C29_NormalizedObjectsNotBlank ==
    pipe_src = "reply" =>
        /\ pipe_pc = "normalized" =>
              \A k \in 1..Len(parsed.claims) :
                  Strip(parsed.claims[k].object_text_canonical) # <<>>
        /\ pipe_pc = "gated" =>
              /\ quality_flags = <<>>
              /\ parsed.claims # <<>>

\* C24: in context completion the claims are scanned in order; the topic put
\* before a state-change fragment is the topic that the nearest preceding
\* claim naming a topic names; a rewritten claim names no topic itself and so
\* never changes the topic carried, no claim is rewritten before a topic was
\* seen, and the number and the order of the claims and every field but the
\* canonical object text (object_text, its copy, with it) stay as they were.
C24_CompletionCarriesNearestTopic ==
    [][Normalizing =>
        LET before == [i \in 1..Len(parsed.claims) |->
                          NormalizeClaim(parsed.claims[i], raw_text, OccurredAt)]
            ObjectText(i) == Strip(before[i].object_text_canonical)
            Topic(i) == _extract_context_topic(ObjectText(i))
        IN  /\ Len(parsed'.claims) >= Len(before)
            /\ \A i \in 1..Len(before) :
                  LET after == parsed'.claims[i]
                      named == {j \in 1..(i - 1) : Topic(j) # <<>>}
                      nearest == CHOOSE j \in named : \A k \in named : k <= j
                  IN  /\ after.object_text = after.object_text_canonical
                      /\ [after EXCEPT
                            !.object_text_canonical = before[i].object_text_canonical,
                            !.object_text = before[i].object_text] = before[i]
                      /\ after.object_text_canonical # before[i].object_text_canonical =>
                            /\ named # {}
                            /\ Topic(i) = <<>>
                            /\ after.object_text_canonical
                                  = Take(Topic(nearest) \o GA
                                         \o _normalize_time_expression_prefix(ObjectText(i)),
                                         MaxObjectLen)]_vars

\* C24 witness: after two claims that name the topics throat and health the
\* fragment was completed with the topic health, its raw object text kept.
C24_Witness ==
    /\ pipe_pc = "normalized"
    /\ Len(parsed.claims) >= 3
    /\ parsed.claims[1].object_text_canonical = <<"t","h","r","o","a","t"," ","s","o","r","e">>
    /\ parsed.claims[2].object_text_canonical = <<"h","e","a","l","t","h"," ","p","o","o","r">>
    /\ parsed.claims[3].object_text_canonical
          = <<"h","e","a","l","t","h","u304c","w","o","r","s","e","n","e","d">>
    /\ parsed.claims[3].object_text_raw = <<"w","o","r","s","e","n","e","d">>
    /\ parsed.claims[3].origin = 2

(***************************************************************************)
(* SpecBundle: calls of insert_claim_bundle one after another on one        *)
(* connection, each returning (no exec_write raises), as a caller that      *)
(* reprocesses entries makes them.                                          *)
(***************************************************************************)

InitBundle == PipeIdle /\ StoreIdle /\ FnIdle

\* insert_claim_bundle(conn, document, parsed, extraction_id, ...) returns.
BundleCall ==
    /\ Len(bundle_log) < MaxCalls
    /\ \E doc \in db.documents, bundle \in BundlePool,
          replace_existing \in BOOLEAN, dry_run \in BOOLEAN :
          LET extraction == _new_id(Conn(0))
          IN  \E ret \in {insert_claim_bundle(extraction.st, doc, bundle,
                                               extraction.id, replace_existing,
                                               dry_run, clock)} :
              /\ db' = ret.st.db
              /\ next_id' = ret.st.next_id
              /\ bundle_log' = Append(bundle_log,
                    [entry_id |-> doc.entry_id,
                     extraction_id |-> extraction.id,
                     replace_existing |-> replace_existing,
                     dry_run |-> dry_run,
                     parsed |-> bundle,
                     claims_inserted |-> ret.claims_inserted])
    /\ clock' = clock + 1
    /\ UNCHANGED <<pipe_vars, run_vars, fn_vars, txn>>

NextBundle == BundleCall

SpecBundle == InitBundle /\ [][NextBundle]_vars
\* The calls made for the entry, in order.
CallsOf(log, entry_id) == SelectSeq(log, LAMBDA c : c.entry_id = entry_id)

\* The calls made for the entry that were not dry runs, in order.
WritingCallsOf(log, entry_id) ==
    SelectSeq(log, LAMBDA c : c.entry_id = entry_id /\ ~c.dry_run)

\* The active claims of the entry.
ActiveClaims(tables, entry_id) ==
    {r \in tables.claims :
        r.entry_id = entry_id /\ r.status = "active" /\ r.deleted_at = NoTime}

\* After the calls `calls` for the entry, all replacing, the active claims of
\* the entry are the claims of the last call and the claims of the calls before
\* it are superseded and dated.
ReplacedBy(calls, entry_id) ==
    (calls # <<>> /\ \A k \in 1..Len(calls) : calls[k].replace_existing) =>
        LET last == calls[Len(calls)]
        IN  /\ ActiveClaims(db, entry_id) =
                  {r \in db.claims : r.extraction_id = last.extraction_id}
            /\ Cardinality(ActiveClaims(db, entry_id)) = Len(last.parsed.claims)
            /\ \A k \in 1..(Len(calls) - 1) :
                  \A r \in db.claims :
                      r.extraction_id = calls[k].extraction_id =>
                          r.status = "superseded" /\ r.deleted_at # NoTime

\* A call removes no claim row and leaves the claims of the other entries as
\* they were.
NoHardDeleteOthersUntouched ==
    /\ {r.id : r \in db.claims} \subseteq {r.id : r \in db'.claims}
    /\ bundle_log' # bundle_log =>
          \A r \in db.claims :
              r.entry_id # bundle_log'[Len(bundle_log')].entry_id =>
                  r \in db'.claims

\* C7 as stated: after any calls of insert_claim_bundle with
\* replace_existing=true for one entry, the active claims of the entry are
\* exactly those inserted by the last call, the claims of earlier calls are
\* superseded with deleted_at set, no claim row is removed and the claims of
\* other entries are untouched.
C7_ReplaceLeavesLastCall ==
    /\ [](\A d \in db.documents : ReplacedBy(CallsOf(bundle_log, d.entry_id), d.entry_id))
    /\ [][NoHardDeleteOthersUntouched]_vars

\* C7 amended: the same of the calls that are not dry runs; a dry-run call
\* leaves every table as it was.
C7_ReplaceLeavesLastWritingCall ==
    /\ [](\A d \in db.documents :
            ReplacedBy(WritingCallsOf(bundle_log, d.entry_id), d.entry_id))
    /\ [][/\ NoHardDeleteOthersUntouched
          /\ (bundle_log' # bundle_log /\ bundle_log'[Len(bundle_log')].dry_run)
                => db' = db]_vars

\* Two replacing calls have written claims for one entry and the claims of the
\* first are superseded, the claims of the second active.
C7_Witness ==
    /\ Len(bundle_log) = 2
    /\ bundle_log[1].entry_id = bundle_log[2].entry_id
    /\ \A k \in 1..2 : /\ bundle_log[k].replace_existing
                        /\ ~bundle_log[k].dry_run
                        /\ Len(bundle_log[k].parsed.claims) = 2
    /\ \E r \in db.claims : r.extraction_id = bundle_log[1].extraction_id
                             /\ r.status = "superseded"
    /\ \E r \in db.claims : r.extraction_id = bundle_log[2].extraction_id
                             /\ r.status = "active"

\* The rows of the entry that count: its active claims, and the evidence,
\* dimensions and links that hang on its claims.
RowCounts(tables, entry_id) ==
    LET ids == {r.id : r \in {c \in tables.claims : c.entry_id = entry_id}}
    IN  <<Cardinality(ActiveClaims(tables, entry_id)),
          Cardinality({r \in tables.evidence : r.claim_id \in ids}),
          Cardinality({r \in tables.dimensions : r.claim_id \in ids}),
          Cardinality({r \in tables.links : r.from_claim_id \in ids})>>

\* C8 as stated: a call with replace_existing=false that retries the bundle the
\* call before it has inserted for the same entry leaves the numbers of claim,
\* evidence, dimension and link rows of the entry as they were.
C8_RetryDoesNotDuplicate ==
    [][(/\ bundle_log # <<>>
        /\ Len(bundle_log') = Len(bundle_log) + 1
        /\ LET prev == bundle_log[Len(bundle_log)]
               cur == bundle_log'[Len(bundle_log')]
           IN  /\ cur.entry_id = prev.entry_id
               /\ cur.parsed = prev.parsed
               /\ ~prev.dry_run
               /\ ~cur.replace_existing)
       => RowCounts(db', bundle_log[Len(bundle_log)].entry_id)
            = RowCounts(db, bundle_log[Len(bundle_log)].entry_id)]_vars
(***************************************************************************)
(* Spec: one invocation of run.                                             *)
(***************************************************************************)

Init ==
    /\ PipeIdle
    /\ FnIdle
    /\ bundle_log = <<>>
    /\ db = InitStore.db
    /\ committed = db
    /\ next_id = InitStore.next_id + 1
    /\ clock = 1
    /\ run_pc = "start"
    /\ args \in ArgsPool
    /\ document = NoDocument
    /\ result = InitResult(args, InitStore.next_id)
    /\ exc = NoExc
    /\ events = <<>>

\* Lines 1389-1398: the try block raises `message` with the result `res` and
\* the calls `evs` made; the except and the finally clause.
Raise(res, message, evs) ==
    /\ result' = ExceptClause(res, message, clock)
    /\ exc' = [msg |-> message, at |-> clock]
    /\ events' = evs \o (IF args.dry_run THEN <<>> ELSE <<"rollback">>)
                     \o <<"close">>
    /\ db' = committed'
    /\ run_pc' = "closed"

\* Lines 1315-1320: fetch_document.
RunFetch ==
    /\ run_pc = "start"
    /\ UNCHANGED committed
    /\ \E fails \in BOOLEAN :
          LET rows == fetch_document(db, args.target.entry_id,
                                     args.target.document_id)
          IN  IF fails
              THEN Raise(result, "db error", events) /\ UNCHANGED document
              ELSE IF rows = {}
              THEN Raise(result, "fact_document not found", events)
                   /\ UNCHANGED document
              ELSE \E row \in rows :
                      /\ document' = row
                      /\ result' = [result EXCEPT !.entry_id = row.entry_id,
                                                  !.document_id = row.id]
                      /\ run_pc' = "fetched"
                      /\ UNCHANGED <<db, exc, events>>
    /\ clock' = clock + 1
    /\ UNCHANGED <<next_id, args, pipe_vars, bundle_log, fn_vars, txn>>

\* Lines 1322-1330: redact_for_llm and update_document_redaction_state.
RunRedact ==
    /\ run_pc = "fetched"
    /\ UNCHANGED committed
    /\ \E fail_at \in 0..1 :
       \E redaction \in {redact_for_llm(document.raw_text)} :
          LET effective_score == Max2(document.pii_score, redaction.pii_score)
              st == update_document_redaction_state(
                        Conn(fail_at), document.id, effective_score,
                        redaction.redaction_state, args.dry_run)
          IN  IF st.raised THEN Raise(result, "db error", events)
              ELSE /\ db' = st.db
                   /\ run_pc' = IF redaction.risk_level = "high"
                                THEN "blocked" ELSE "redacted"
                   /\ UNCHANGED <<result, exc, events>>
    /\ clock' = clock + 1
    /\ UNCHANGED <<next_id, args, document, pipe_vars, bundle_log, fn_vars, txn>>

\* Lines 1331-1336: the result of a blocked document, and the commit.
RunBlocked ==
    /\ run_pc = "blocked"
    /\ \E ok \in BOOLEAN :
          LET res == [result EXCEPT
                        !.status = "blocked",
                        !.error_code = "blocked_sensitive",
                        !.error = [msg |-> "blocked_sensitive", flags |-> <<>>]]
          IN  IF args.dry_run
              THEN /\ result' = res
                   /\ run_pc' = "blocked_validate"
                   /\ UNCHANGED <<db, committed, exc, events>>
              ELSE /\ committed' = conn_commit(db, committed, ok)
                   /\ IF ok
                      THEN /\ result' = res
                           /\ run_pc' = "blocked_validate"
                           /\ events' = Append(events, "commit")
                           /\ UNCHANGED <<db, exc>>
                      ELSE Raise(res, "commit failed", Append(events, "commit"))
    /\ clock' = clock + 1
    /\ UNCHANGED <<next_id, args, document, pipe_vars, bundle_log, fn_vars, txn>>

\* Lines 1337-1339: validate_contract inside the try block, print, return 0.
\* The schema is a file outside the program: it accepts the payload or not.
RunBlockedValidate ==
    /\ run_pc = "blocked_validate"
    /\ UNCHANGED committed
    /\ \E accepted \in BOOLEAN :
          IF accepted
          THEN /\ events' = events \o <<"print", "close">>
               /\ run_pc' = "returned"
               /\ db' = committed
               /\ UNCHANGED <<result, exc>>
          ELSE Raise(result, "contract violation", Append(events, "reject"))
    /\ clock' = clock + 1
    /\ UNCHANGED <<next_id, args, document, pipe_vars, bundle_log, fn_vars, txn>>

\* Lines 1341-1359: the API key and extract_with_llm.
RunCallModel ==
    /\ run_pc = "redacted"
    /\ UNCHANGED committed
    /\ IF ~args.api_key
       THEN /\ Raise(result, "environment variable not set", events)
            /\ UNCHANGED <<next_id, parsed, payload>>
       ELSE \E outcome \in {"LLM HTTPError", "LLM URLError", "timed out", "ok"},
               reply \in RunReplyPool \cup {[claims |-> JNull, entities |-> JList(<<>>),
                                             links |-> JList(<<>>)]},
               fail_at \in 0..3 :
               \E ret \in {extract_with_llm(Conn(fail_at), document, outcome, reply,
                                             result.extraction_id, args.dry_run)} :
                   /\ next_id' = ret.st.next_id
                   /\ IF ret.exc # NULL
                      THEN /\ Raise(result, ret.exc, Append(events, "urlopen"))
                           /\ UNCHANGED <<parsed, payload>>
                      ELSE /\ db' = ret.st.db
                           /\ parsed' = ret.parsed
                           /\ payload' = reply
                           /\ run_pc' = "extracted"
                           /\ events' = Append(events, "urlopen")
                           /\ UNCHANGED <<result, exc>>
    /\ clock' = clock + 1
    /\ UNCHANGED <<args, document, pipe_pc, pipe_src, raw_text, quality_flags,
                   bundle_log, fn_vars, txn>>

\* Lines 1360-1368: normalize_to_me_centric_claims and apply_quality_gate.
RunNormalizeGate ==
    /\ run_pc = "extracted"
    /\ UNCHANGED committed
    /\ \E normalized \in {normalize_to_me_centric_claims(
                              parsed, document.raw_text, document.occurred_at_utc)} :
       \E gated \in {apply_quality_gate(normalized)} :
           /\ parsed' = gated.out
           /\ quality_flags' = gated.quality_flags
           /\ IF gated.out.claims = <<>>
              THEN Raise(result, "quality_gate_rejected_all_claims", events)
              ELSE /\ run_pc' = "gated"
                   /\ UNCHANGED <<db, result, exc, events>>
    /\ clock' = clock + 1
    /\ UNCHANGED <<next_id, args, document, pipe_pc, pipe_src, payload, raw_text,
                   bundle_log, fn_vars, txn>>

\* Lines 1370-1385: insert_claim_bundle and the counts of the result; any of
\* its writes may raise.
RunInsert ==
    /\ run_pc = "gated"
    /\ UNCHANGED committed
    /\ \E fail_at \in 0..insert_claim_bundle(
                            Conn(0), document, parsed, result.extraction_id,
                            args.replace_existing, args.dry_run, clock).st.writes :
          \E ret \in {insert_claim_bundle(
                          Conn(fail_at), document, parsed, result.extraction_id,
                          args.replace_existing, args.dry_run, clock)} :
              /\ next_id' = ret.st.next_id
              /\ IF ret.st.raised THEN Raise(result, "db error", events)
                 ELSE /\ db' = ret.st.db
                      /\ result' = [result EXCEPT
                            !.claims_inserted = ret.claims_inserted,
                            !.evidence_inserted = ret.evidence_inserted,
                            !.entities_upserted = ret.entities_upserted,
                            !.links_inserted = ret.links_inserted,
                            !.error = IF quality_flags # <<>>
                                      THEN [msg |-> "quality_flags",
                                            flags |-> Take(quality_flags, 5)]
                                      ELSE @,
                            !.status = "succeeded"]
                      /\ run_pc' = "inserted"
                      /\ UNCHANGED <<exc, events>>
    /\ clock' = clock + 1
    /\ UNCHANGED <<args, document, pipe_vars, bundle_log, fn_vars, txn>>

\* Lines 1387-1388 and 1397-1398: the commit, and the close of finally.
RunCommit ==
    /\ run_pc = "inserted"
    /\ \E ok \in BOOLEAN :
          IF args.dry_run
          THEN /\ db' = committed
               /\ run_pc' = "closed"
               /\ events' = Append(events, "close")
               /\ UNCHANGED <<committed, result, exc>>
          ELSE /\ committed' = conn_commit(db, committed, ok)
               /\ IF ok
                  THEN /\ db' = committed'
                       /\ run_pc' = "closed"
                       /\ events' = events \o <<"commit", "close">>
                       /\ UNCHANGED <<result, exc>>
                  ELSE Raise(result, "commit failed", Append(events, "commit"))
    /\ clock' = clock + 1
    /\ UNCHANGED <<next_id, args, document, pipe_vars, bundle_log, fn_vars, txn>>

\* Lines 1400-1402: validate_contract after the try block, print, return 0.
RunFinalValidate ==
    /\ run_pc = "closed"
    /\ \E accepted \in BOOLEAN :
          IF accepted
          THEN events' = Append(events, "print") /\ run_pc' = "returned"
          ELSE events' = Append(events, "reject") /\ run_pc' = "propagated"
    /\ clock' = clock + 1
    /\ UNCHANGED <<db, next_id, args, document, result, committed, exc,
                   pipe_vars, bundle_log, fn_vars, txn>>

Next ==
    \/ RunFetch
    \/ RunRedact
    \/ RunBlocked
    \/ RunBlockedValidate
    \/ RunCallModel
    \/ RunNormalizeGate
    \/ RunInsert
    \/ RunCommit
    \/ RunFinalValidate

Spec == Init /\ [][Next]_vars

\* run is over: the connection is closed.
RunOver == run_pc \in {"closed", "returned", "propagated"}

\* The rows of the claims, their evidence, dimensions and links, and of the
\* entities and their aliases.
ClaimTables(tables) ==
    [t \in {"claims", "evidence", "dimensions", "links", "entities", "aliases"}
        |-> tables[t]]

\* The row of the document run fetched, in `tables`.
DocumentRow(tables) == CHOOSE r \in tables.documents : r.id = document.id

\* The tables apart from the score and the redaction state of the documents.
ApartFromRedaction(tables) ==
    [tables EXCEPT !.documents =
        {[r EXCEPT !.pii_score = 0, !.redaction_state = "pending"] : r \in @}]

\* The steps of run that raised `exc`, the check of the result payload apart.
StepRaised == exc.msg \notin {NULL, "contract violation"}

\* C1 as stated: in a run that is no dry run the store is committed only
\* once normalize, the quality gate and insert_claim_bundle have returned, and
\* when a step of run raises the committed store is the store before the run.
C1_CommitOnlyAfterInsert ==
    /\ [][committed' # committed => (~args.dry_run /\ run_pc = "inserted")]_vars
    /\ [](StepRaised => committed = InitStore.db)

\* C1 amended: the store is committed only once insert_claim_bundle has
\* returned, or for a document of high risk, and then nothing but the score and
\* the redaction state of the documents differs; when a step of run raises
\* the committed store is the store before the run.
C1_CommitAfterInsertOrBlocked ==
    /\ [][committed' # committed =>
            /\ ~args.dry_run
            /\ \/ run_pc = "inserted"
               \/ /\ run_pc = "blocked"
                  /\ ApartFromRedaction(committed') = ApartFromRedaction(committed)]_vars
    /\ [](StepRaised => committed = InitStore.db)

\* insert_claim_bundle raised in the middle of a bundle of two claims, in a run
\* that is no dry run and replaces the claims of the entry.
C1_Witness ==
    /\ ~args.dry_run
    /\ args.replace_existing
    /\ run_pc = "closed"
    /\ exc.msg = "db error"
    /\ Len(parsed.claims) = 2
    /\ next_id > InitStore.next_id + 6
    /\ committed = InitStore.db
    /\ db = committed

\* The redaction of the text of the fetched document has risk level high.
HighRisk ==
    /\ document # NoDocument
    /\ redact_for_llm(document.raw_text).risk_level = "high"

\* The model was not called and no row of a claim, an evidence span, a
\* dimension, a link, an entity or an alias was written or soft-deleted.
NoModelCallNoClaimWrite ==
    /\ \A k \in 1..Len(events) : events[k] # "urlopen"
    /\ ClaimTables(db) = ClaimTables(InitStore.db)
    /\ ClaimTables(committed) = ClaimTables(InitStore.db)

\* The result of a blocked document.
BlockedResult ==
    /\ result.status = "blocked"
    /\ result.error_code = "blocked_sensitive"
    /\ result.next_retry_at = NoTime

\* C5 as stated: for a document of high risk run calls no model and writes no
\* row of a claim; it ends with status blocked, error_code blocked_sensitive
\* and no next_retry_at, and unless it is a dry run the redaction state
\* blocked of the document is committed.
C5_HighRiskEndsBlocked ==
    HighRisk =>
        /\ NoModelCallNoClaimWrite
        /\ RunOver =>
              /\ BlockedResult
              /\ ~args.dry_run => DocumentRow(committed).redaction_state = "blocked"

\* C5 amended: for a document of high risk run calls no model and writes no
\* row of a claim; when nothing raised inside the try block it ends blocked,
\* with the redaction state blocked committed unless it is a dry run, which
\* commits nothing; when something raised it ends queued.
C5_HighRiskBlockedUnlessRaised ==
    HighRisk =>
        /\ NoModelCallNoClaimWrite
        /\ (RunOver /\ exc.msg = NULL) =>
              /\ BlockedResult
              /\ ~args.dry_run => DocumentRow(committed).redaction_state = "blocked"
              /\ args.dry_run => committed = InitStore.db
        /\ (RunOver /\ exc.msg # NULL) =>
              /\ result.status = "queued"
              /\ result.error_code = "retryable_error"

\* The document of high risk was blocked, and that was committed.
C5_Witness ==
    /\ HighRisk
    /\ ~args.dry_run
    /\ run_pc = "returned"
    /\ BlockedResult
    /\ DocumentRow(committed).redaction_state = "blocked"
    /\ DocumentRow(InitStore.db).redaction_state = "pending"

\* C6: whenever a step of run raises, the result is queued with error_code
\* retryable_error, the message of the exception and a next_retry_at five
\* minutes after the failure; what the connection wrote is rolled back, the
\* committed store being the store before the run unless the blocked state
\* was committed before; the model is called at most once; and for status
\* succeeded and blocked next_retry_at is null.
C6_RaiseQueuesRetry ==
    /\ exc.msg # NULL =>
          /\ result.status = "queued"
          /\ result.error_code = "retryable_error"
          /\ result.error = [msg |-> exc.msg, flags |-> <<>>]
          /\ result.next_retry_at # NoTime
          /\ result.next_retry_at = exc.at + RetryDelay
          /\ db = committed
          /\ ~args.dry_run => \E k \in 1..Len(events) : events[k] = "rollback"
          /\ StepRaised => committed = InitStore.db
    /\ Cardinality({k \in 1..Len(events) : events[k] = "urlopen"}) <= 1
    /\ result.status \in {"succeeded", "blocked"} => result.next_retry_at = NoTime

\* The reply of the model was malformed, after the log of the request was
\* written.
C6_Witness ==
    /\ exc.msg = "LLM parse failed"
    /\ ~args.dry_run
    /\ next_id > InitStore.next_id + 1
    /\ result.status = "queued"
    /\ result.next_retry_at = exc.at + RetryDelay
    /\ db = InitStore.db

\* C9 as stated: the counts of the result are non-zero only when the status
\* is succeeded and the bundle was committed; when the status is queued or
\* blocked all four counts are 0.
C9_NoPartialSuccessReported ==
    RunOver =>
        LET counts == {result.claims_inserted, result.evidence_inserted,
                       result.entities_upserted, result.links_inserted}
        IN  /\ counts # {0} =>
                  /\ result.status = "succeeded"
                  /\ \E r \in committed.claims :
                        r.extraction_id = result.extraction_id
            /\ result.status \in {"queued", "blocked"} => counts = {0}

\* C10 as stated: a result payload that validate_contract rejects makes the
\* exception propagate out of run; no result line is printed and the
\* violation is not turned into a queued result.
C10_ContractViolationPropagates ==
    (\E k \in 1..Len(events) : events[k] = "reject") =>
        /\ run_pc = "propagated"
        /\ \A k \in 1..Len(events) : events[k] # "print"
        /\ exc.msg # "contract violation"

(***************************************************************************)
(* SpecRedact: redact_for_llm called on one text, more than once.          *)
(***************************************************************************)

\* The most fragments a text handed to redact_for_llm is made of.
MaxFrags == 2

\* The texts handed to redact_for_llm: fragments that the pattern families
\* match or do not match, one after another.
RedactPool ==
    LET Frags == {<<" ","a","@","b",".","c","o">>,
                  <<"1","2","3","-","4","5","6","7">>,
                  <<"0","9","0","1","2","3","4","5","6","7">>,
                  <<"t","o","k","e","n","=">> \o [k \in 1..12 |-> "a"],
                  SecretText,
                  <<" ">>,
                  <<"x">>}
    IN  {Flatten(fs) : fs \in SeqsUpTo(Frags, MaxFrags)}

InitRedact ==
    /\ PipeIdle
    /\ StoreIdle
    /\ txn = <<>>
    /\ fn_pc = "redact_for_llm"
    /\ fn_args \in {<<text>> : text \in RedactPool}
    /\ fn_ret = <<>>

\* redact_for_llm(text) returns.
RedactCall ==
    /\ fn_pc = "redact_for_llm"
    /\ Len(fn_ret) < MaxCalls
    /\ fn_ret' = Append(fn_ret, redact_for_llm(fn_args[1]))
    /\ UNCHANGED <<pipe_vars, store_vars, bundle_log, run_vars, fn_pc, fn_args, txn>>

NextRedact == RedactCall

SpecRedact == InitRedact /\ [][NextRedact]_vars

\* The score the claim gives a text: the greatest of the fixed scores of the
\* families that match it.
FamilyScore(text) ==
    IF \E pattern \in SeqRange(SECRET_PATTERNS) : PatternSearch(pattern, text)
    THEN 95
    ELSE IF PatternSearch("POSTAL_RE", text) THEN 70
    ELSE IF PatternSearch("PHONE_RE", text) THEN 65
    ELSE IF PatternSearch("EMAIL_RE", text) THEN 55
    ELSE 0

\* C13: every result of redact_for_llm has the greatest score of the matching
\* families, the level high iff the score is at least 0.90, medium iff it is
\* at least 0.50 and below 0.90 and low otherwise, the state blocked, masked
\* or none for high, medium or low, an empty llm_text when high and the input
\* itself when low, and the input as original_text; the calls on one text
\* return equal results.
C13_RedactScoresLevelsStates ==
    \A k \in 1..Len(fn_ret) :
        LET text == fn_args[1]
            r == fn_ret[k]
        IN  /\ r.pii_score = FamilyScore(text)
            /\ r.risk_level = "high" <=> r.pii_score >= 90
            /\ r.risk_level = "medium" <=> (r.pii_score >= 50 /\ r.pii_score < 90)
            /\ r.risk_level = "low" <=> r.pii_score < 50
            /\ r.redaction_state =
                  CASE r.risk_level = "high" -> "blocked"
                    [] r.risk_level = "medium" -> "masked"
                    [] r.risk_level = "low" -> "none"
            /\ r.risk_level = "high" => r.llm_text = <<>>
            /\ r.risk_level = "low" => r.llm_text = text
            /\ r.original_text = text
            /\ r = fn_ret[1]

\* Two calls made on a text that an email address and a postal code match
\* and no secret does: the score of the postal code, and the text masked.
C13_Witness ==
    /\ fn_pc = "redact_for_llm"
    /\ Len(fn_ret) = 2
    /\ PatternSearch("EMAIL_RE", fn_args[1])
    /\ PatternSearch("POSTAL_RE", fn_args[1])
    /\ fn_ret[2].pii_score = 70
    /\ fn_ret[2].redaction_state = "masked"

\* C14: for every text of medium risk the llm_text of redact_for_llm is as
\* long as the text, and at every position it has the character of the text
\* or, where a span matched, one filler character.
C14_MaskedTextSameLength ==
    \A k \in 1..Len(fn_ret) :
        LET text == fn_args[1]
            r == fn_ret[k]
        IN  (fn_pc = "redact_for_llm" /\ r.risk_level = "medium") =>
                /\ Len(r.llm_text) = Len(text)
                /\ \A p \in 1..Len(text) :
                      \/ r.llm_text[p] = text[p]
                      \/ r.llm_text[p] \in SeqRange(MASK_FILLER)

\* C15: the claims insert_claim_bundle wrote for one extraction never hold two
\* claims of the same subject, predicate and object.
C15_PersistedClaimsHaveDistinctKeys ==
    \A r1, r2 \in db.claims :
        (/\ r1.extraction_id = r2.extraction_id
         /\ r1.subject_text = r2.subject_text
         /\ r1.predicate = r2.predicate
         /\ Lower(Strip(r1.object_text_canonical))
               = Lower(Strip(r2.object_text_canonical)))
            => r1.id = r2.id

(***************************************************************************)
(* SpecFacts: dedupe_facts called on a list of facts and then on what it   *)
(* returned.                                                               *)
(***************************************************************************)

InitFacts ==
    /\ PipeIdle
    /\ StoreIdle
    /\ txn = <<>>
    /\ fn_pc = "dedupe_facts"
    /\ fn_args \in {<<facts, max_facts>> : facts \in FactsPool,
                                           max_facts \in 0..MaxFacts}
    /\ fn_ret = <<>>

\* out = dedupe_facts(facts, max_facts)
DedupeCall ==
    /\ fn_pc = "dedupe_facts"
    /\ fn_ret' = <<dedupe_facts(fn_args[1], fn_args[2])>>
    /\ fn_pc' = "returned"
    /\ UNCHANGED <<pipe_vars, store_vars, bundle_log, run_vars, fn_args, txn>>

\* dedupe_facts(out, max_facts)
DedupeAgain ==
    /\ fn_pc = "returned"
    /\ fn_ret' = Append(fn_ret, dedupe_facts(fn_ret[1], fn_args[2]))
    /\ fn_pc' = "again"
    /\ UNCHANGED <<pipe_vars, store_vars, bundle_log, run_vars, fn_args, txn>>

NextFacts == DedupeCall \/ DedupeAgain

SpecFacts == InitFacts /\ [][NextFacts]_vars

\* The normalized triple of a fact.
NormalizedKey(fact) ==
    <<Lower(Strip(fact.subject)), Lower(Strip(fact.predicate)),
      _normalize_for_dedupe(fact.object_text)>>

\* What the claim says of dedupe_facts but for the cap: out is a subsequence
\* of facts, no two facts of it share a triple, each is the first input fact
\* with its triples among those with no empty part, none has an empty part,
\* and dedupe_facts returns its own output unchanged.
DedupedApartFromCap ==
    fn_pc \in {"returned", "again"} =>
        LET facts == fn_args[1]
            out == fn_ret[1]
        IN  /\ \A k \in 1..Len(out) :
                  /\ out[k].origin \in 1..Len(facts)
                  /\ out[k] = facts[out[k].origin]
                  /\ k > 1 => out[k - 1].origin < out[k].origin
                  /\ \A part \in 1..3 : FactKey(out[k])[part] # <<>>
                  /\ \A j \in 1..(out[k].origin - 1) :
                        (\A part \in 1..3 : FactKey(facts[j])[part] # <<>>) =>
                            /\ FactKey(facts[j]) # FactKey(out[k])
                            /\ NormalizedKey(facts[j]) # NormalizedKey(out[k])
            /\ \A k, l \in 1..Len(out) :
                  k # l => /\ FactKey(out[k]) # FactKey(out[l])
                           /\ NormalizedKey(out[k]) # NormalizedKey(out[l])
            /\ fn_pc = "again" => fn_ret[2] = out

\* C16: dedupe_facts returns a subsequence of its input of at most max_facts
\* facts, no two of the same trimmed triple or the same normalized triple,
\* each the first input fact with its triples, none with an empty subject,
\* predicate or object, and applied to its own output it returns it unchanged.
C16_DedupeWithinCap ==
    /\ DedupedApartFromCap
    /\ fn_pc \in {"returned", "again"} => Len(fn_ret[1]) <= fn_args[2]

(***************************************************************************)
(* SpecTxn: two invocations of run for document 1 on the neon backend,     *)
(* each in the transaction of its own connection.  The statements follow   *)
(* PostgreSQL at its default isolation level, READ COMMITTED: a statement  *)
(* sees the committed rows and the rows its own transaction wrote, and an  *)
(* UPDATE waits while another transaction that has not ended holds the     *)
(* lock of a row it matches.  None is a dry run.                           *)
(***************************************************************************)

Procs == {1, 2}

\* The invocation has begun its transaction and not ended it.
InProgress(q) ==
    txn[q].pc \in {"fetched", "redacted", "extracted", "deleting", "inserted"}

\* The tables as a statement of p sees them.
TxnView(p) ==
    [t \in DOMAIN db |->
        IF t \in {"documents", "claims"}
        THEN {r \in db[t] : \A w \in txn[p].writes[t] : w.id # r.id}
                 \cup txn[p].writes[t]
        ELSE db[t] \cup txn[p].writes[t]]

\* The connection of p as a statement finds it.
TxnConn(p) ==
    [db |-> TxnView(p), next_id |-> next_id, writes |-> 0, fail_at |-> 0,
     raised |-> FALSE]

\* The rows of `tables` that the committed tables do not hold.
Uncommitted(tables) == [t \in DOMAIN db |-> tables[t] \ db[t]]

\* Another transaction holds the lock of one of the rows `ids` of table t.
LockedByOther(p, t, ids) ==
    \E q \in Procs \ {p} : \E id \in ids : <<t, id>> \in txn[q].locks

NoTxn ==
    [pc |-> "idle", replace_existing |-> FALSE, document |-> NoDocument,
     extraction_id |-> 0, parsed |-> EmptyOutput, matched |-> {},
     writes |-> EmptyStore, locks |-> {}, overlapped |-> FALSE,
     status |-> "failed"]

InitTxn ==
    /\ PipeIdle
    /\ FnIdleButTxn
    /\ txn = [p \in Procs |-> NoTxn]
    /\ bundle_log = <<>>
    /\ db = InitStore.db
    /\ next_id = InitStore.next_id
    /\ clock = 1
    /\ run_pc = "idle"
    /\ args \in {a \in ArgsPool : ~a.dry_run /\ ~a.replace_existing /\ ~a.api_key
                                    /\ a.target.document_id = 1}
    /\ document = NoDocument
    /\ result = InitResult(args, 0)
    /\ committed = db
    /\ exc = NoExc
    /\ events = <<>>

\* Lines 1284-1320: the connection, the extraction identifier, fetch_document.
TxnFetch(p) ==
    /\ txn[p].pc = "idle"
    /\ \E replace_existing \in BOOLEAN, row \in fetch_document(TxnView(p), 0, 1) :
          txn' = [q \in Procs |->
                    IF q = p
                    THEN [txn[p] EXCEPT
                            !.pc = "fetched",
                            !.replace_existing = replace_existing,
                            !.document = row,
                            !.extraction_id = next_id,
                            !.overlapped = \E o \in Procs : InProgress(o)]
                    ELSE IF InProgress(q)
                    THEN [txn[q] EXCEPT !.overlapped = TRUE]
                    ELSE txn[q]]
    /\ next_id' = next_id + 1
    /\ UNCHANGED <<pipe_vars, db, clock, bundle_log, run_vars, fn_vars>>

\* Lines 1322-1330: redact_for_llm and the UPDATE of the document row, which
\* waits for the lock of the row.
TxnRedact(p) ==
    /\ txn[p].pc = "fetched"
    /\ ~LockedByOther(p, "documents", {txn[p].document.id})
    /\ \E red \in {redact_for_llm(txn[p].document.raw_text)} :
          \E st \in {update_document_redaction_state(
                         TxnConn(p), txn[p].document.id,
                         Max2(txn[p].document.pii_score, red.pii_score),
                         red.redaction_state, FALSE)} :
              txn' = [txn EXCEPT
                        ![p].pc = "redacted",
                        ![p].writes = Uncommitted(st.db),
                        ![p].locks = IF st.writes > 0
                                     THEN @ \cup {<<"documents", txn[p].document.id>>}
                                     ELSE @]
    /\ UNCHANGED <<pipe_vars, store_vars, bundle_log, run_vars, fn_vars>>

\* Lines 1341-1368: the model answers and the reply is parsed, normalized and
\* gated; or the call raises, and lines 1389-1398 roll the transaction back.
TxnCallModel(p) ==
    /\ txn[p].pc = "redacted"
    /\ \/ \E bundle \in {b \in BundlePool : b.claims # <<>> /\ b.entities = <<>>} :
             txn' = [txn EXCEPT ![p].pc = "extracted", ![p].parsed = bundle]
       \/ txn' = [txn EXCEPT ![p].pc = "queued", ![p].status = "queued",
                             ![p].writes = EmptyStore, ![p].locks = {}]
    /\ UNCHANGED <<pipe_vars, store_vars, bundle_log, run_vars, fn_vars>>

\* Lines 1370-1378 and 787-800: insert_claim_bundle is called and, when the
\* claims are replaced, the UPDATE of soft_delete_claims begins: it matches
\* the active claims of the entry that are visible as it begins.
TxnSoftDelete(p) ==
    /\ txn[p].pc = "extracted"
    /\ txn' = [txn EXCEPT
                 ![p].pc = "deleting",
                 ![p].matched =
                     IF txn[p].replace_existing
                     THEN {c.id : c \in {r \in TxnView(p).claims :
                                           /\ r.entry_id = txn[p].document.entry_id
                                           /\ r.deleted_at = NoTime}}
                     ELSE {}]
    /\ UNCHANGED <<pipe_vars, store_vars, bundle_log, run_vars, fn_vars>>

\* Lines 787-800 and 816-1385: the UPDATE waits for the locks of the rows it
\* matched and marks those of them that are still active; then the rows of
\* the bundle are inserted.
TxnInsert(p) ==
    /\ txn[p].pc = "deleting"
    /\ ~LockedByOther(p, "claims", txn[p].matched)
    /\ LET seen == {r \in TxnView(p).claims : r.id \in txn[p].matched}
           conn == [TxnConn(p) EXCEPT !.db.claims = seen]
           marked == IF txn[p].replace_existing
                     THEN soft_delete_claims(conn, txn[p].document.entry_id,
                                             FALSE, clock)
                     ELSE conn
           st == [marked EXCEPT !.db.claims = @ \cup (TxnView(p).claims \ seen)]
       IN  \E ret \in {insert_claim_bundle(
                           st, txn[p].document, txn[p].parsed,
                           txn[p].extraction_id, FALSE, FALSE, clock)} :
               /\ next_id' = ret.st.next_id
               /\ txn' = [txn EXCEPT
                            ![p].pc = "inserted",
                            ![p].status = "succeeded",
                            ![p].writes = Uncommitted(ret.st.db),
                            ![p].locks = @ \cup {<<"claims", id>> :
                                                   id \in txn[p].matched}]
    /\ UNCHANGED <<pipe_vars, db, clock, bundle_log, run_vars, fn_vars>>

\* Line 1388: conn.commit().
TxnCommit(p) ==
    /\ txn[p].pc = "inserted"
    /\ db' = TxnView(p)
    /\ clock' = clock + 1
    /\ txn' = [txn EXCEPT ![p].pc = "succeeded", ![p].writes = EmptyStore,
                          ![p].locks = {}]
    /\ UNCHANGED <<pipe_vars, next_id, bundle_log, run_vars, fn_vars>>

NextTxn ==
    \E p \in Procs :
        \/ TxnFetch(p)
        \/ TxnRedact(p)
        \/ TxnCallModel(p)
        \/ TxnSoftDelete(p)
        \/ TxnInsert(p)
        \/ TxnCommit(p)

SpecTxn == InitTxn /\ [][NextTxn]_vars

\* The extractions that have active claims of the entry.
ActiveSets(tables, entry_id) ==
    {r.extraction_id : r \in ActiveClaims(tables, entry_id)}

\* Both invocations replaced the claims of the entry and succeeded.
BothReplacedAndSucceeded ==
    \A p \in Procs : txn[p].pc = "succeeded" /\ txn[p].replace_existing

\* One invocation began its transaction before the other had ended its own.
Interleaved == \E p \in Procs : txn[p].overlapped

RecordedScore ==
    Max2(document.pii_score, redact_for_llm(document.raw_text).pii_score)

\* C25: run sends the text of a document to the model only if the pii score
\* it records for the document, the larger of the stored and the fresh score,
\* is below 0.90; when the recorded score is 0.90 or more and nothing raises,
\* run ends blocked and the redaction state it records is blocked.
C25_ModelCalledOnlyBelowRecordedThreshold ==
    /\ (\E k \in 1..Len(events) : events[k] = "urlopen") => RecordedScore < 90
    /\ (run_pc = "closed" /\ document # NoDocument /\ exc = NoExc
          /\ RecordedScore >= 90) =>
            /\ result.status = "blocked"
            /\ ~args.dry_run =>
                  \A r \in committed.documents :
                      r.id = document.id => r.redaction_state = "blocked"

(***************************************************************************)
(* SpecCollide: the calls of SpecBundle on a store that holds a claim of   *)
(* entry 2, written through another connection, whose identifier _new_id   *)
(* hands out again: the case the conflict rule of the inserts is for.       *)
(***************************************************************************)

\* The identifiers of the earlier claim that the calls may draw again.
CollidingIds == 2..9

InitCollide ==
    /\ PipeIdle
    /\ FnIdle
    /\ \E k \in CollidingIds :
          db = insert_claim_bundle(
                  [db |-> [EmptyStore EXCEPT
                              !.documents = {Document(1, <<"t","e","a">>),
                                             Document(2, <<"t","e","a">>)}],
                   next_id |-> k, writes |-> 0, fail_at |-> 0, raised |-> FALSE],
                  Document(2, <<"t","e","a">>),
                  ParsedClaimsOutput(
                      <<DirectClaim(<<"d","e","c","i","d","e","d">>,
                                    <<"t","e","a">>, 0)>>, <<>>, <<>>),
                  0, FALSE, FALSE, 0).st.db
    /\ next_id = 1
    /\ clock = 1
    /\ bundle_log = <<>>
    /\ run_pc = "idle"
    /\ args \in {a \in ArgsPool : ~a.dry_run /\ ~a.replace_existing /\ ~a.api_key
                                    /\ a.target.document_id = 1}
    /\ document = NoDocument
    /\ result = InitResult(args, 0)
    /\ committed = db
    /\ exc = NoExc
    /\ events = <<>>

SpecCollide == InitCollide /\ [][BundleCall]_vars

\* C26: insert_claim_bundle writes dependent rows only for the claims whose
\* insert was confirmed: every evidence, dimension and link row a call writes
\* belongs to claim rows the same call wrote, and every link row in the store
\* joins two claim rows in the store, also when the insert of a claim was
\* ignored by the conflict rule.
C26_DependentRowsOnlyOfInsertedClaims ==
    [][LET inserted == {c.id : c \in db'.claims \ db.claims}
           persisted == {c.id : c \in db'.claims}
       IN  /\ \A e \in db'.evidence \ db.evidence : e.claim_id \in inserted
           /\ \A d \in db'.dimensions \ db.dimensions : d.claim_id \in inserted
           /\ \A l \in db'.links \ db.links :
                 /\ l.from_claim_id \in inserted
                 /\ l.to_claim_id \in inserted
           /\ \A l \in db'.links :
                 /\ l.from_claim_id \in persisted
                 /\ l.to_claim_id \in persisted]_vars

(***************************************************************************)
(* SpecCaptures: the commands around the claim worker that share the       *)
(* store: apps/cli/capture.py, apps/worker/process_captures.py and         *)
(* apps/worker/extract_key_facts.py, run one after another.  db is the     *)
(* store as the open connection sees it, committed the durable store.      *)
(* The columns a command computes from raw_text alone and never reads      *)
(* back (titles, summaries, priorities, scores of mood) are not kept.      *)
(***************************************************************************)

\* The commands a behaviour starts.
MaxRuns == 2

\* The statements of one process_one that may fail: its insert, its update.
MaxWrites == 2

\* None of an identifier column.
NoId == 0

\* A row of captures_raw as insert_capture writes it (capture.py:320-336).
CaptureRow(id, input_type, text, pii_score, source_id, now) ==
    [id |-> id, source_id |-> source_id, input_type |-> input_type,
     raw_text |-> text, sensitivity |-> "internal", pii_score |-> pii_score,
     status |-> "new", parsed_note_id |-> NoId, parsed_task_id |-> NoId,
     created_at |-> now, updated_at |-> now]

\* The heads TASK_HINT_RE accepts after leading blanks, and the words it
\* accepts anywhere, in lower case (re.IGNORECASE); `open` is what stands
\* between the round brackets.
TASK_HINT_HEADS(open) ==
    {<<"[", " ", "]">>, <<"[", "x", "]">>, <<"t","o","d","o">>,
     <<"t","a","s","k">>, <<"n","e","x","t">>,
     <<"u3084","u308b","u3053","u3068">>, <<"u5bbf","u984c">>}
        \cup {<<"(", c, ")">> : c \in open}

\* TASK_HINT_RE.search(text)
TaskHintSearch(text, open) ==
    LET low == Lower(text)
        lead == Len(low) - Len(LStrip(low))
        TASK_HINT_WORDS ==
            {<<"u7de0","u5207">>, <<"u671f","u9650">>, <<"u3084","u308b">>,
             <<"u5bfe","u5fdc","u3059","u308b">>}
    IN  \/ \E head \in TASK_HINT_HEADS(open) :
              /\ MatchAt(low, head, lead + 1)
              /\ WordBoundary(low, lead + 1 + Len(head))
        \/ \E i \in 1..Len(low) :
              /\ MatchAt(low, <<"t","o","d","o">>, i)
              /\ WordBoundary(low, i)
              /\ WordBoundary(low, i + 4)
        \/ ContainsAny(low, TASK_HINT_WORDS)

detect_task_like(input_type, text) ==
    input_type = "task" \/ TaskHintSearch(text, {" "})

\* ORDER BY of the column whose values are `key`, ascending; rows of one value
\* in the order of their ids.
RECURSIVE OrderBy(_, _)
OrderBy(rows, key) ==
    IF rows = {} THEN <<>>
    ELSE LET first == CHOOSE r \in rows :
                          \A q \in rows : \/ key[r] < key[q]
                                          \/ key[r] = key[q] /\ r.id <= q.id
         IN  <<first>> \o OrderBy(rows \ {first}, key)

fetch_captures(store, capture_id, limit) ==
    LET found == IF capture_id # NoId
                 THEN {c \in store.captures : c.id = capture_id}
                 ELSE {c \in store.captures : c.status = "new"}
        ordered == OrderBy(found, [c \in found |-> c.created_at])
    IN  IF capture_id # NoId THEN ordered ELSE Take(ordered, limit)

\* The connection of a command: a PostgreSQL transaction in which a statement
\* failed is aborted, and every later statement of it raises.
CommandConn(fail_at, aborted) ==
    [db |-> db, next_id |-> next_id, writes |-> 0,
     fail_at |-> IF aborted THEN 1 ELSE fail_at, raised |-> FALSE,
     aborted |-> aborted, now |-> clock]

\* fetch_one(conn, ...) that finds `rows`: st after it, and the row found.
fetch_one(st, rows) ==
    IF st.aborted \/ st.raised THEN [st |-> [st EXCEPT !.raised = TRUE], row |-> NoId]
    ELSE [st |-> st, row |-> IF rows = {} THEN NoId ELSE (CHOOSE r \in rows : TRUE).id]

\* A write_task that does not look for the task of the capture.
write_task_unchecked(st, capture, dry_run) ==
    LET made == _new_id(st)
        row == [id |-> made.id, source_capture_id |-> capture.id,
                details |-> capture.raw_text, status |-> "todo",
                source |-> "extracted", sensitivity |-> capture.sensitivity,
                created_at |-> st.now, updated_at |-> st.now,
                deleted_at |-> NoTime]
    IN  IF dry_run THEN [st |-> made.st, id |-> made.id]
        ELSE [st |-> exec_write(made.st, "tasks", made.st.db.tasks \cup {row}),
              id |-> made.id]

write_task(st, capture, dry_run) ==
    LET existing == fetch_one(st, {t \in st.db.tasks :
                                      /\ t.source_capture_id = capture.id
                                      /\ t.deleted_at = NoTime})
        made == _new_id(st)
        row == [id |-> made.id, source_capture_id |-> capture.id,
                details |-> capture.raw_text, status |-> "todo",
                source |-> "extracted", sensitivity |-> capture.sensitivity,
                created_at |-> st.now, updated_at |-> st.now,
                deleted_at |-> NoTime]
    IN  IF existing.st.raised \/ existing.row # NoId
        THEN [st |-> existing.st, id |-> existing.row]
        ELSE IF dry_run THEN [st |-> made.st, id |-> made.id]
        ELSE [st |-> exec_write(made.st, "tasks", made.st.db.tasks \cup {row}),
              id |-> made.id]

write_note(st, capture, dry_run) ==
    LET existing == fetch_one(st, {n \in st.db.notes :
                                      /\ n.source_capture_id = capture.id
                                      /\ n.deleted_at = NoTime})
        made == _new_id(st)
        row == [id |-> made.id, source_capture_id |-> capture.id,
                body |-> capture.raw_text, source_id |-> capture.source_id,
                sensitivity |-> capture.sensitivity,
                review_status |-> "active",
                created_at |-> st.now, updated_at |-> st.now,
                deleted_at |-> NoTime]
    IN  IF existing.st.raised \/ existing.row # NoId
        THEN [st |-> existing.st, id |-> existing.row]
        ELSE IF dry_run THEN [st |-> made.st, id |-> made.id]
        ELSE [st |-> exec_write(made.st, "notes", made.st.db.notes \cup {row}),
              id |-> made.id]

\* A mark_capture_processed that keeps the parsed columns as they are.
mark_capture_processed_status_only(st, capture_id, parsed_note_id, parsed_task_id, dry_run) ==
    IF dry_run THEN st
    ELSE exec_write(st, "captures",
            {IF c.id = capture_id
             THEN [c EXCEPT !.status = "processed", !.updated_at = st.now]
             ELSE c : c \in st.db.captures})

mark_capture_processed(st, capture_id, parsed_note_id, parsed_task_id, dry_run) ==
    IF dry_run THEN st
    ELSE exec_write(st, "captures",
            {IF c.id = capture_id
             THEN [c EXCEPT !.status = "processed",
                            !.parsed_note_id = parsed_note_id,
                            !.parsed_task_id = parsed_task_id,
                            !.updated_at = st.now]
             ELSE c : c \in st.db.captures})

mark_capture_blocked(st, capture_id, dry_run) ==
    IF dry_run THEN st
    ELSE exec_write(st, "captures",
            {IF c.id = capture_id
             THEN [c EXCEPT !.status = "blocked", !.updated_at = st.now]
             ELSE c : c \in st.db.captures})

\* process_one(conn, capture, dry_run): the connection after it and the pair
\* it returns; kind "raised" when a statement of it raised.
process_one(st, capture, dry_run) ==
    LET Returned(after, kind, id) ==
            [st |-> after, kind |-> IF after.raised THEN "raised" ELSE kind,
             id |-> id]
    IN  IF capture.status \in {"blocked", "processed", "archived"}
        THEN Returned(st, "skipped", capture.id)
        ELSE IF capture.pii_score >= 90
        THEN Returned(mark_capture_blocked(st, capture.id, dry_run),
                      "blocked", capture.id)
        ELSE IF detect_task_like(capture.input_type, capture.raw_text)
        THEN LET task == write_task(st, capture, dry_run)
             IN  Returned(mark_capture_processed(task.st, capture.id, NoId,
                                                 task.id, dry_run),
                          "task", task.id)
        ELSE LET note == write_note(st, capture, dry_run)
             IN  Returned(mark_capture_processed(note.st, capture.id, note.id,
                                                 NoId, dry_run),
                          "note", note.id)

\* A fact of the key facts extractor: a Fact with its type and confidence.
KeyFact(object_text, object_type, confidence) ==
    [subject |-> <<"m","e">>, predicate |-> <<"l","i","k","e","s">>,
     object_text |-> object_text, origin |-> 0, object_type |-> object_type,
     evidence_excerpt |-> NULL, confidence |-> confidence]

\* A row of key_facts as insert_facts writes it (extract_key_facts.py:610-633).
KeyFactRow(id, note_id, task_id, fact, extractor_version, now) ==
    [id |-> id, note_id |-> note_id, task_id |-> task_id,
     subject |-> fact.subject, predicate |-> fact.predicate,
     object_text |-> fact.object_text, object_type |-> fact.object_type,
     confidence |-> fact.confidence, sensitivity |-> "internal",
     extractor_version |-> extractor_version,
     updated_at |-> now, deleted_at |-> NoTime]

\* The tables of the commands before any of them ran: the captures of a line
\* that asks for a task, of a note, of a secret (pii_score 0.95) entered as a
\* task, and one archived by hand; a capture processed into a note, and the
\* key fact extracted from the note.
CommandStore ==
    [sources |-> {[id |-> 1, kind |-> "cli", detail |-> "capture-cli",
                   created_at |-> 1]},
     captures |->
        {CaptureRow(2, "note", <<"t","o","d","o"," ","r","u","n">>, 0, 1, 2),
         CaptureRow(3, "note", <<"t","e","a">>, 0, 1, 3),
         CaptureRow(4, "task", SecretText, 95, 1, 4),
         [CaptureRow(5, "note", <<"t","e","a">>, 0, 1, 5)
             EXCEPT !.status = "archived"],
         [CaptureRow(6, "note", <<"r","a","i","n">>, 0, 1, 6)
             EXCEPT !.status = "processed", !.parsed_note_id = 7,
                    !.updated_at = 7]},
     notes |-> {[id |-> 7, source_capture_id |-> 6, body |-> <<"r","a","i","n">>,
                 source_id |-> 1, sensitivity |-> "internal",
                 review_status |-> "active", created_at |-> 7,
                 updated_at |-> 7, deleted_at |-> NoTime]},
     tasks |-> {},
     key_facts |-> {KeyFactRow(8, 7, NoId, KeyFact(<<"r","a","i","n">>, "text", 80),
                               "rules-v1", 8)}]

\* What the commands leave alone: the pipeline and run.
command_frame ==
    <<pipe_vars, bundle_log, run_pc, args, document, result, exc, events, txn>>

\* No command under way, and the behaviour may start another.
CommandReady == fn_pc = "ready" /\ fn_args.runs < fn_args.budget

\* The arguments of process_captures: --backend, --dry-run, --capture-id and
\* --limit.
ProcessArgsPool ==
    [backend : {"sqlite", "neon"}, dry_run : BOOLEAN,
     capture_id : {NoId, 4, 5}, limit : {1, 200}]

\* Lines 350-365: open_connection, the counters and fetch_captures.
ProcessCapturesStart ==
    /\ CommandReady
    /\ \E a \in ProcessArgsPool :
          /\ fn_args' = a @@ [runs |-> fn_args.runs + 1,
                               budget |-> fn_args.budget,
                               command |-> "process_captures"]
          /\ fn_ret' = [captures |-> fetch_captures(db, a.capture_id, a.limit),
                        created_notes |-> 0, created_tasks |-> 0,
                        blocked |-> 0, skipped |-> 0, errors |-> 0,
                        aborted |-> FALSE, returned |-> <<>>]
    /\ fn_pc' = "process_captures"
    /\ clock' = clock + 1
    /\ UNCHANGED <<db, next_id, committed, command_frame>>

\* Lines 366-379: one round of the loop; a statement of process_one may fail.
ProcessCapturesOne ==
    /\ fn_pc = "process_captures"
    /\ fn_ret.captures # <<>>
    /\ \E fail_at \in 0..MaxWrites :
          \E out \in {process_one(CommandConn(fail_at, fn_ret.aborted),
                                  Head(fn_ret.captures), fn_args.dry_run)} :
             /\ db' = out.st.db
             /\ next_id' = out.st.next_id
             /\ fn_ret' =
                  [fn_ret EXCEPT
                     !.captures = Tail(@),
                     !.created_notes = IF out.kind = "note" THEN @ + 1 ELSE @,
                     !.created_tasks = IF out.kind = "task" THEN @ + 1 ELSE @,
                     !.blocked = IF out.kind = "blocked" THEN @ + 1 ELSE @,
                     !.skipped = IF out.kind = "skipped" THEN @ + 1 ELSE @,
                     !.errors = IF out.kind = "raised" THEN @ + 1 ELSE @,
                     !.aborted = @ \/ (out.st.raised /\ fn_args.backend = "neon"),
                     !.returned = <<out.kind, out.id>>]
    /\ UNCHANGED <<clock, committed, fn_pc, fn_args, command_frame>>

\* A command ends with `printed`: its payload, or what it raised.
CommandEnds(printed) ==
    /\ fn_pc' = "printed"
    /\ fn_ret' = printed
    /\ UNCHANGED <<fn_args, next_id, clock, command_frame>>

\* The process of the command exits.
CommandExit ==
    /\ fn_pc = "printed"
    /\ fn_pc' = "ready"
    /\ fn_args' = [runs |-> fn_args.runs, budget |-> fn_args.budget]
    /\ fn_ret' = <<>>
    /\ UNCHANGED <<db, committed, next_id, clock, command_frame>>

\* Lines 381-399: the commit, the close of finally and the payload printed.
\* The commit of an aborted transaction is a rollback; a commit that raises
\* leaves run before the payload.
ProcessCapturesEnd ==
    /\ fn_pc = "process_captures"
    /\ fn_ret.captures = <<>>
    /\ \E ok \in BOOLEAN :
          /\ fn_args.dry_run => ok
          /\ committed' = IF fn_args.dry_run \/ fn_ret.aborted THEN committed
                          ELSE conn_commit(db, committed, ok)
          /\ db' = committed'
          /\ CommandEnds(
                IF ~ok THEN [raised |-> "commit failed"]
                ELSE [processor |-> "ingestion-rules-v1",
                      captures_processed |-> fn_ret.created_notes
                          + fn_ret.created_tasks + fn_ret.blocked,
                      notes_created |-> fn_ret.created_notes,
                      tasks_created |-> fn_ret.created_tasks,
                      captures_blocked |-> fn_ret.blocked,
                      captures_skipped |-> fn_ret.skipped,
                      errors |-> fn_ret.errors,
                      dry_run |-> fn_args.dry_run])


\* The store of the commands, and `budget` commands to start.
CommandsAtRest(budget) ==
    /\ PipeIdle
    /\ txn = <<>>
    /\ bundle_log = <<>>
    /\ run_pc = "idle"
    /\ args \in {a \in ArgsPool : ~a.dry_run /\ ~a.replace_existing /\ ~a.api_key
                                    /\ a.target.document_id = 1}
    /\ document = NoDocument
    /\ result = InitResult(args, 0)
    /\ exc = NoExc
    /\ events = <<>>
    /\ db = CommandStore
    /\ committed = db
    /\ next_id = 10
    /\ clock = 10
    /\ fn_pc = "ready"
    /\ fn_args = [runs |-> 0, budget |-> budget]
    /\ fn_ret = <<>>


InitCaptures == CommandsAtRest(MaxRuns)

NextCaptures ==
    \/ ProcessCapturesStart
    \/ ProcessCapturesOne
    \/ ProcessCapturesEnd
    \/ CommandExit

SpecCaptures == InitCaptures /\ [][NextCaptures]_vars

\* The step is a round of the loop of process_captures: a call of process_one.
ProcessOneCalled == fn_pc = "process_captures" /\ fn_pc' = "process_captures"

\* The row of the capture process_one is called with, in `store`.
CaptureOf(store) ==
    CHOOSE c \in store.captures : c.id = Head(fn_ret.captures).id

\* process_one left the capture it was called with blocked, and wrote no note
\* and no task.
MovedToBlocked ==
    /\ CaptureOf(db).pii_score >= 90
    /\ CaptureOf(db').status = "blocked"
    /\ db'.notes = db.notes
    /\ db'.tasks = db.tasks

\* process_one left the capture it was called with processed, with exactly one
\* of the parsed columns set, to a task or a note of that capture.
MovedToProcessed ==
    LET after == CaptureOf(db')
    IN  /\ CaptureOf(db).pii_score < 90
        /\ after.status = "processed"
        /\ (after.parsed_task_id = NoId) # (after.parsed_note_id = NoId)
        /\ after.parsed_task_id # NoId =>
              \E t \in db'.tasks : /\ t.id = after.parsed_task_id
                                   /\ t.source_capture_id = after.id
        /\ after.parsed_note_id # NoId =>
              \E n \in db'.notes : /\ n.id = after.parsed_note_id
                                   /\ n.source_capture_id = after.id

\* No step takes a capture out of blocked or processed, in the store of the
\* connection during process_one and in the durable store at any time.
NeverLeavesBlockedOrProcessed ==
    /\ \A c \in committed.captures :
          c.status \in {"blocked", "processed"} =>
              \E d \in committed'.captures : d.id = c.id /\ d.status = c.status
    /\ ProcessOneCalled =>
          \A c \in db.captures :
              c.status \in {"blocked", "processed"} =>
                  \E d \in db'.captures : d.id = c.id /\ d.status = c.status

\* C22 as stated: every call of process_one with a capture of status 'new'
\* leaves it blocked (pii_score >= 0.9, no note and no task written) or
\* processed with exactly one parsed id, that of a task or note of the
\* capture; a call with a blocked, processed or archived capture writes
\* nothing; no capture leaves blocked or processed.
C22_ProcessOneMovesNewCapture ==
    [][/\ ProcessOneCalled =>
             IF CaptureOf(db).status = "new"
             THEN MovedToBlocked \/ MovedToProcessed
             ELSE db' = db
       /\ NeverLeavesBlockedOrProcessed]_vars

\* C22 as the code has it: a call of process_one with dry_run false in which
\* no statement raises moves a capture of status 'new' as the claim says; a
\* call with dry_run true returns the same kind and writes nothing; a call in
\* which a statement raises leaves the capture at 'new'; a blocked, processed
\* or archived capture is skipped without a write, and no capture leaves
\* blocked or processed.
C22_ProcessOneMovesNewCaptureUnlessDryRun ==
    [][/\ ProcessOneCalled =>
             LET kind == fn_ret'.returned[1]
             IN  IF CaptureOf(db).status # "new"
                 THEN db' = db /\ kind = "skipped"
                 ELSE IF fn_args.dry_run
                 THEN /\ db' = db
                      /\ kind \in {"blocked", "task", "note"}
                      /\ kind = "blocked" <=> CaptureOf(db).pii_score >= 90
                 ELSE IF kind = "raised"
                 THEN CaptureOf(db').status = "new"
                 ELSE /\ MovedToBlocked \/ MovedToProcessed
                      /\ kind = "blocked" <=> MovedToBlocked
                      /\ kind = "task" <=> CaptureOf(db').parsed_task_id # NoId
                      /\ kind = "note" <=> CaptureOf(db').parsed_note_id # NoId
       /\ NeverLeavesBlockedOrProcessed]_vars

\* A call of process_one with dry_run false has just left a capture processed,
\* with the task written for it, and another call has left a capture blocked.
C22_Witness ==
    /\ fn_pc = "process_captures"
    /\ ~fn_args.dry_run
    /\ fn_ret.returned # <<>>
    /\ fn_ret.returned[1] = "task"
    /\ \E c \in db.captures :
          /\ c.status = "processed"
          /\ c.parsed_task_id = fn_ret.returned[2]
          /\ c.parsed_note_id = NoId
          /\ \E t \in db.tasks : t.id = c.parsed_task_id
    /\ \E c \in db.captures : c.status = "blocked"

\* The active tasks and notes of `store` derived from the capture `id`.
ActiveOf(store, id) ==
    {t \in store.tasks : t.source_capture_id = id /\ t.deleted_at = NoTime}
        \cup {n \in store.notes : n.source_capture_id = id /\ n.deleted_at = NoTime}

\* C30: after any sequence of process_captures runs, one after another, each
\* capture has at most one active note or task derived from it, in the store
\* of the connection and in the durable store; a call of process_one for a
\* capture that has one returns the id of that row and inserts nothing.
C30_OneActiveRowPerCapture ==
    [][/\ \A store \in {db', committed'} :
             \A c \in store.captures : Cardinality(ActiveOf(store, c.id)) <= 1
       /\ (ProcessOneCalled /\ ActiveOf(db, CaptureOf(db).id) # {}
             /\ CaptureOf(db).status = "new" /\ fn_ret'.returned[1] # "raised") =>
             /\ fn_ret'.returned[2] \in {r.id : r \in ActiveOf(db, CaptureOf(db).id)}
             /\ db'.tasks = db.tasks
             /\ db'.notes = db.notes]_vars

\* A run has marked a capture processed with the task an earlier run wrote for
\* it, the earlier run having failed to mark it; the task is the only one.
C30_Witness ==
    \E c \in committed.captures :
        /\ c.status = "processed"
        /\ \E t \in committed.tasks :
              /\ t.id = c.parsed_task_id
              /\ t.created_at < c.updated_at
        /\ Cardinality(ActiveOf(committed, c.id)) = 1

(***************************************************************************)
(* SpecCommands: run of extract_claims_llm.py on its store, or the         *)
(* commands capture, process_captures and extract_key_facts on theirs.     *)
(*                                                                         *)
(* apps/cli/capture.py                                                     *)
(***************************************************************************)

\* The commands a behaviour of SpecCommands starts.
MaxCommands == 1

\* No --pii-score.
NoScore == -1

\* read_text of one argument: stripped; empty when there is no text.
read_text(text) == Strip(Strip(text))

\* URL_RE.search(text) is http:// or https:// and a character after it that
\* is not a blank, a bracket, a greater-than sign or a quote.
detect_input_type(text, requested) ==
    LET UrlSearch ==
            \E i \in 1..Len(text) :
                \E head \in {<<"h","t","t","p",":","/","/">>,
                             <<"h","t","t","p","s",":","/","/">>} :
                    /\ MatchAt(text, head, i)
                    /\ i + Len(head) <= Len(text)
                    /\ ~IsSpace(text[i + Len(head)])
                    /\ text[i + Len(head)] \notin {")", ">", "\""}
    IN  IF requested # "auto" THEN requested
        ELSE IF UrlSearch THEN "url"
        ELSE IF TaskHintSearch(text, {" ", "\n", "\t", "\r", "u3000"}) THEN "task"
        ELSE "note"

\* resolve_pii_score for an override that is None or within 0..1.
resolve_pii_score(text, override) ==
    IF override = NoScore THEN estimate_pii_score(text) ELSE override

\* resolve_source_id(conn, args): the connection after it, the id and whether
\* the source is new.
resolve_source_id(st, a) ==
    LET by_id == {s \in st.db.sources : s.id = a.source_id}
        by_kind == {s \in st.db.sources :
                       s.kind = a.source_kind /\ s.detail = "capture-cli"}
        made == _new_id(st)
        Insert(after, id) ==
            IF a.dry_run THEN after
            ELSE exec_write(after, "sources",
                    after.db.sources \cup
                        {[id |-> id, kind |-> a.source_kind,
                          detail |-> "capture-cli", created_at |-> st.now]})
    IN  IF a.source_id # NoId
        THEN IF by_id # {}
             THEN [st |-> st, id |-> a.source_id, created |-> FALSE]
             ELSE [st |-> Insert(st, a.source_id), id |-> a.source_id,
                   created |-> TRUE]
        ELSE IF by_kind # {}
        THEN [st |-> st, created |-> FALSE,
              id |-> OrderBy(by_kind, [s \in by_kind |-> s.created_at])[1].id]
        ELSE [st |-> Insert(made.st, made.id), id |-> made.id, created |-> TRUE]

\* An insert_capture that writes on a dry run too.
insert_capture_always(st, source_id, input_type, text, pii_score, dry_run) ==
    LET made == _new_id(st)
    IN  [st |-> exec_write(made.st, "captures",
                   made.st.db.captures \cup
                       {CaptureRow(made.id, input_type, text, pii_score,
                                   source_id, st.now)}),
         id |-> made.id]

insert_capture(st, source_id, input_type, text, pii_score, dry_run) ==
    LET made == _new_id(st)
    IN  IF dry_run THEN [st |-> made.st, id |-> made.id]
        ELSE [st |-> exec_write(made.st, "captures",
                        made.st.db.captures \cup
                            {CaptureRow(made.id, input_type, text, pii_score,
                                        source_id, st.now)}),
              id |-> made.id]

\* The arguments of capture: --backend, --dry-run, the text, --input-type,
\* --pii-score, --source-id and --source-kind.
CaptureArgsPool ==
    [backend : {"sqlite", "supabase"}, dry_run : BOOLEAN,
     text : {<<" ","t","o","d","o"," ","r","u","n">>,
             <<"h","t","t","p",":","/","/","a">>, <<" ">>},
     input_type : {"auto"}, pii_score : {NoScore, 95},
     source_id : {NoId, 9}, source_kind : {"cli"}]

\* run of capture.py (lines 418-442) with run_sqlite (368-388) or
\* run_supabase (391-415): on sqlite the statements are one transaction that
\* the commit makes durable, on supabase every request is durable by itself.
CaptureRun ==
    /\ CommandReady
    /\ \E a \in CaptureArgsPool, fail_at \in 0..MaxWrites, ok \in BOOLEAN :
       \E text \in {read_text(a.text)} :
       \E input_type \in {detect_input_type(text, a.input_type)} :
       \E pii_score \in {resolve_pii_score(text, a.pii_score)} :
       \E source \in {resolve_source_id(CommandConn(fail_at, FALSE), a)} :
       \E capture \in {insert_capture(source.st, source.id, input_type, text,
                                      pii_score, a.dry_run)} :
          LET raised == capture.st.raised
              commits == a.backend = "sqlite" /\ ~a.dry_run /\ ~raised
          IN  /\ commits \/ ok
              /\ IF text = <<>>
                 THEN /\ UNCHANGED <<db, committed, next_id>>
                      /\ fn_ret' = [raised |-> "no capture text"]
                 ELSE /\ committed' =
                            IF a.backend = "supabase" THEN capture.st.db
                            ELSE IF commits
                            THEN conn_commit(capture.st.db, committed, ok)
                            ELSE committed
                      /\ db' = committed'
                      /\ next_id' = capture.st.next_id
                      /\ fn_ret' =
                            IF raised \/ ~ok THEN [raised |-> "statement failed"]
                            ELSE [capture_id |-> capture.id,
                                  source_id |-> source.id,
                                  source_created |-> source.created,
                                  input_type |-> input_type,
                                  pii_score |-> pii_score, status |-> "new",
                                  dry_run |-> a.dry_run,
                                  text_length |-> Len(text)]
              /\ fn_args' = a @@ [runs |-> fn_args.runs + 1,
                                  budget |-> fn_args.budget,
                                  command |-> "capture"]
    /\ fn_pc' = "printed"
    /\ clock' = clock + 1
    /\ UNCHANGED command_frame

(***************************************************************************)
(* apps/worker/extract_key_facts.py: run with --extractor llm, the facts   *)
(* of an item being what _parse_facts_payload makes of the reply.          *)
(***************************************************************************)

DEFAULT_MIN_CONFIDENCE == 70

DEFAULT_MAX_FACTS_PER_ITEM == 12

validate_fact_schema(fact) ==
    /\ fact.object_type \in {"text", "number", "date", "bool", "json"}
    /\ 0 <= fact.confidence /\ fact.confidence <= 100
    /\ Strip(fact.subject) # <<>>
    /\ Strip(fact.predicate) # <<>>
    /\ Strip(fact.object_text) # <<>>
    /\ Len(fact.subject) <= 120
    /\ Len(fact.predicate) <= 80
    /\ Len(fact.object_text) <= 1000
    /\ fact.evidence_excerpt = NULL \/ Len(fact.evidence_excerpt) <= 500

\* fetch_notes and fetch_tasks without an id: the rows of `t` that are not
\* deleted and, with only_changed, have no active key fact or are newer than
\* their key facts; ORDER BY updated_at DESC LIMIT.
fetch_items(store, t, only_changed, limit) ==
    LET FactsOf(r) == {k \in store.key_facts :
                          IF t = "notes" THEN k.note_id = r.id
                          ELSE k.task_id = r.id}
        found == {r \in store[t] :
                     /\ r.deleted_at = NoTime
                     /\ only_changed =>
                           \/ \A k \in FactsOf(r) : k.deleted_at # NoTime
                           \/ \A k \in FactsOf(r) : r.updated_at > k.updated_at}
    IN  Take(OrderBy(found, [r \in found |-> 0 - r.updated_at]), limit)

\* soft_delete_existing_facts: the connection after it, and the row count.
soft_delete_existing_facts(st, note_id, task_id) ==
    LET Hit(k) == /\ k.deleted_at = NoTime
                  /\ IF note_id # NoId THEN k.note_id = note_id
                     ELSE k.task_id = task_id
        after == exec_write(st, "key_facts",
                    {IF Hit(k) THEN [k EXCEPT !.deleted_at = st.now,
                                              !.updated_at = st.now]
                     ELSE k : k \in st.db.key_facts})
    IN  [st |-> after,
         count |-> IF after.raised THEN 0
                   ELSE Cardinality({k \in st.db.key_facts : Hit(k)})]

\* The loop of insert_facts over `facts`, with the counts so far.
RECURSIVE InsertFactsFrom(_, _, _, _, _, _, _, _)
InsertFactsFrom(st, note_id, task_id, facts, min_confidence, dry_run, extractor_version, counts) ==
    IF facts = <<>> \/ st.raised THEN [st |-> st, counts |-> counts]
    ELSE LET fact == Head(facts)
             made == _new_id(st)
             after == exec_write(made.st, "key_facts",
                         InsertOrIgnore(made.st.db.key_facts,
                             KeyFactRow(made.id, note_id, task_id, fact,
                                        extractor_version, st.now)))
         IN  IF ~validate_fact_schema(fact) \/ fact.confidence < min_confidence
             THEN InsertFactsFrom(st, note_id, task_id, Tail(facts),
                      min_confidence, dry_run, extractor_version,
                      [counts EXCEPT !.skipped = @ + 1])
             ELSE IF dry_run
             THEN InsertFactsFrom(st, note_id, task_id, Tail(facts),
                      min_confidence, dry_run, extractor_version,
                      [counts EXCEPT !.inserted = @ + 1])
             ELSE InsertFactsFrom(after, note_id, task_id, Tail(facts),
                      min_confidence, dry_run, extractor_version,
                      [counts EXCEPT !.inserted = @ + 1])

insert_facts(st, note_id, task_id, facts, min_confidence, dry_run, extractor_version) ==
    InsertFactsFrom(st, note_id, task_id, facts, min_confidence, dry_run,
                    extractor_version, [inserted |-> 0, skipped |-> 0])

\* What the model answers for an item, before dedupe_facts: no fact, a fact,
\* a fact and one of an unknown type, a fact of low confidence.
KeyFactsReplies ==
    {<<>>,
     <<KeyFact(<<"t","e","a">>, "text", 80)>>,
     <<KeyFact(<<"t","e","a">>, "text", 80), KeyFact(<<"r","u","n">>, "url", 80)>>,
     <<KeyFact(<<"t","e","a">>, "text", 50)>>}

\* The arguments of extract_key_facts: --backend, --dry-run,
\* --replace-existing, --all-rows and --source.
KeyFactsArgsPool ==
    [backend : {"sqlite", "neon"}, dry_run : BOOLEAN,
     replace_existing : BOOLEAN, all_rows : BOOLEAN,
     source : {"all", "tasks"}]

\* Lines 900-936 and 951-957: the counters and the rows to work on.  The
\* tasks are fetched after the notes are done; no statement of the notes
\* changes what fetch_tasks reads.
KeyFactsStart ==
    /\ CommandReady
    /\ \E a \in KeyFactsArgsPool :
          LET Items(t) == [i \in DOMAIN fetch_items(db, t, ~a.all_rows, 200) |->
                              [t |-> t,
                               id |-> fetch_items(db, t, ~a.all_rows, 200)[i].id]]
          IN  /\ fn_args' = a @@ [runs |-> fn_args.runs + 1,
                                  budget |-> fn_args.budget,
                                  command |-> "extract_key_facts"]
              /\ fn_ret' = [items |-> (IF a.source = "all" THEN Items("notes")
                                       ELSE <<>>) \o Items("tasks"),
                            total_items |-> 0, total_inserted |-> 0,
                            total_skipped |-> 0, total_replaced |-> 0,
                            errors |-> 0]
    /\ fn_pc' = "extract_key_facts"
    /\ clock' = clock + 1
    /\ UNCHANGED <<db, next_id, committed, command_frame>>

\* Lines 937-950 and 958-981: one round of a loop.  The extraction may raise,
\* which the loop counts; a statement that raises ends run, and the close of
\* finally drops the transaction.
KeyFactsOne ==
    /\ fn_pc = "extract_key_facts"
    /\ fn_ret.items # <<>>
    /\ LET item == Head(fn_ret.items)
           note_id == IF item.t = "notes" THEN item.id ELSE NoId
           task_id == IF item.t = "tasks" THEN item.id ELSE NoId
       IN  \/ /\ fn_ret' = [fn_ret EXCEPT !.items = Tail(@),
                                          !.total_items = @ + 1,
                                          !.errors = @ + 1]
              /\ UNCHANGED <<db, next_id, committed, fn_pc, fn_args>>
           \/ \E reply \in KeyFactsReplies, fail_at \in 0..MaxWrites :
                 \E out \in
                    {insert_facts(replaced.st, note_id, task_id,
                                  dedupe_facts(reply, DEFAULT_MAX_FACTS_PER_ITEM),
                                  DEFAULT_MIN_CONFIDENCE, fn_args.dry_run,
                                  "llm-gpt-4.1-mini")
                        @@ [replaced |-> replaced.count]
                     : replaced \in
                         {IF fn_args.replace_existing /\ ~fn_args.dry_run
                          THEN soft_delete_existing_facts(
                                  CommandConn(fail_at, FALSE), note_id, task_id)
                          ELSE [st |-> CommandConn(fail_at, FALSE), count |-> 0]}} :
                    IF out.st.raised
                    THEN /\ db' = committed
                         /\ next_id' = out.st.next_id
                         /\ fn_pc' = "printed"
                         /\ fn_ret' = [raised |-> "statement failed"]
                         /\ UNCHANGED <<committed, fn_args>>
                    ELSE /\ db' = out.st.db
                         /\ next_id' = out.st.next_id
                         /\ fn_ret' =
                              [fn_ret EXCEPT
                                 !.items = Tail(@),
                                 !.total_items = @ + 1,
                                 !.total_inserted = @ + out.counts.inserted,
                                 !.total_skipped = @ + out.counts.skipped,
                                 !.total_replaced = @ + out.replaced]
                         /\ UNCHANGED <<committed, fn_pc, fn_args>>
    /\ UNCHANGED <<clock, command_frame>>

\* Lines 983-1009: the commit, the close of finally and the payload printed.
KeyFactsEnd ==
    /\ fn_pc = "extract_key_facts"
    /\ fn_ret.items = <<>>
    /\ \E ok \in BOOLEAN :
          /\ fn_args.dry_run => ok
          /\ committed' = IF fn_args.dry_run THEN committed
                          ELSE conn_commit(db, committed, ok)
          /\ db' = committed'
          /\ CommandEnds(
                IF ~ok THEN [raised |-> "commit failed"]
                ELSE [source |-> fn_args.source, extractor |-> "llm",
                      items_processed |-> fn_ret.total_items,
                      facts_inserted |-> fn_ret.total_inserted,
                      facts_skipped |-> fn_ret.total_skipped,
                      facts_replaced |-> fn_ret.total_replaced,
                      errors |-> fn_ret.errors,
                      dry_run |-> fn_args.dry_run])

InitCommands == Init \/ CommandsAtRest(MaxCommands)

NextCommands ==
    \/ Next
    \/ CaptureRun
    \/ ProcessCapturesStart
    \/ ProcessCapturesOne
    \/ ProcessCapturesEnd
    \/ KeyFactsStart
    \/ KeyFactsOne
    \/ KeyFactsEnd
    \/ CommandExit

SpecCommands == InitCommands /\ [][NextCommands]_vars

\* The step belongs to a command or a run started with --dry-run.
DryRunStep ==
    \/ run_pc # "idle" /\ args.dry_run
    \/ fn_pc' \notin {"idle", "ready"} /\ fn_args'.dry_run

====
